---- MODULE Spec2Model ----
(***************************************************************************)
(* Safety-forms backend: the multi-provider analysis service               *)
(* (aiAnalysisService.js), the tracking service (trackingService.js) and   *)
(* the upload / analyze / confirm request handlers (routes/forms.js).      *)
(*                                                                         *)
(* A text is a sequence of tokens, each token standing for one phrase of   *)
(* the OCR text, joined by single spaces, followed by `pad' filler         *)
(* characters ('-') that match none of the service's patterns.             *)
(*   h2s       "H2S monitor worn within breathing zone"                    *)
(*   hear0     "hearing protection worn 0"                                 *)
(*   loose     "loose or uneven work surfaces"                             *)
(*   fallprot  "fall protection"       fire      "fire"                    *)
(*   hazard    "hazard"                emergency "emergency"               *)
(*   control   "control"               elec      "electrical work"         *)
(*   scaf      "scaffolding"           exc       "excavation"              *)
(*   box "☑"   tick "✓"   cross "✗"   nl  line feed                        *)
(***************************************************************************)
EXTENDS Integers, Sequences, FiniteSets, TLC

\* ---------------------------------------------------------------- bounds
MaxTextTokens == 1
MaxBelowZero == 2
MinReplyScore == 0 - MaxBelowZero
MaxReplyScore == 12
MaxForms == 1
MaxAudit == 2
MaxSessions == 1
MaxHazards == 1
MaxItems == 2
MaxWindow == 2
MaxBelowWindow == 1
PoolSize == 2
MinWindow == 0 - MaxBelowWindow
MaxDeleted == 1

\* ---------------------------------------------------------------- texts
Tokens ==
  {"h2s", "hear0", "loose", "fallprot", "fire", "hazard", "emergency",
   "control", "elec", "scaf", "exc", "box", "tick", "cross", "nl"}

Pads == {0, 1200}

RECURSIVE SeqsUpTo(_, _)
SeqsUpTo(S, n) ==
  IF n = 0 THEN {<<>>}
  ELSE LET shorter == SeqsUpTo(S, n - 1)
       IN  shorter \cup {Append(s, x) : s \in shorter, x \in S}

Texts == [toks : SeqsUpTo(Tokens, MaxTextTokens), pad : Pads]

TokChars(tok) ==
  CASE tok = "h2s" -> 38
    [] tok = "hear0" -> 25
    [] tok = "loose" -> 29
    [] tok = "fallprot" -> 15
    [] tok = "fire" -> 4
    [] tok = "hazard" -> 6
    [] tok = "emergency" -> 9
    [] tok = "control" -> 7
    [] tok = "elec" -> 15
    [] tok = "scaf" -> 11
    [] tok = "exc" -> 10
    [] OTHER -> 1

RECURSIVE SumChars(_)
SumChars(toks) ==
  IF toks = <<>> THEN 0 ELSE TokChars(Head(toks)) + 1 + SumChars(Tail(toks))

\* String.prototype.length of the text
TextLength(text) ==
  (IF text.toks = <<>> THEN 0 ELSE SumChars(text.toks) - 1) + text.pad

RECURSIVE DropLeadingNl(_)
DropLeadingNl(toks) ==
  IF toks # <<>> /\ Head(toks) = "nl" THEN DropLeadingNl(Tail(toks)) ELSE toks

RECURSIVE DropTrailingNl(_)
DropTrailingNl(toks) ==
  IF toks # <<>> /\ toks[Len(toks)] = "nl"
  THEN DropTrailingNl(SubSeq(toks, 1, Len(toks) - 1)) ELSE toks

\* text.trim().length
TrimLength(text) ==
  IF text.pad > 0
  THEN TextLength([toks |-> DropLeadingNl(text.toks), pad |-> text.pad])
  ELSE TextLength([toks |-> DropTrailingNl(DropLeadingNl(text.toks)), pad |-> 0])

\* ------------------------------------------------ regular expressions
\* tokens holding one of the characters of [✗xX] ("excavation" has an x)
XMarkToks == {"cross", "exc"}
\* tokens holding one of the characters of [✓✔]
TickToks == {"tick"}

\* '.' does not match a line feed
NoNewline(toks, i, j) == \A k \in (i + 1)..(j - 1) : toks[k] # "nl"

\* /A/ matches
Has(toks, A) == \E i \in DOMAIN toks : toks[i] \in A

\* /A.*B/ matches
Then(toks, A, B) ==
  \E i \in DOMAIN toks, j \in DOMAIN toks :
    i < j /\ toks[i] \in A /\ toks[j] \in B /\ NoNewline(toks, i, j)

\* /A.*B(?!.*✓)/ matches
ThenNoTickAfter(toks, A, B) ==
  \E i \in DOMAIN toks, j \in DOMAIN toks :
    /\ i < j /\ toks[i] \in A /\ toks[j] \in B /\ NoNewline(toks, i, j)
    /\ ~ \E k \in DOMAIN toks :
           k > j /\ toks[k] \in TickToks /\ NoNewline(toks, j, k)

\* /kw.*M|M.*kw/ matches
MarkedEitherSide(toks, kw, M) == Then(toks, kw, M) \/ Then(toks, M, kw)

RECURSIVE SkipNl(_, _)
SkipNl(toks, i) ==
  IF i <= Len(toks) /\ toks[i] = "nl" THEN SkipNl(toks, i + 1) ELSE i

\* /H2S monitor worn within breathing zone(?!\s*☑)/i matches
H2SMonitorUnconfirmed(toks) ==
  \E i \in DOMAIN toks :
    /\ toks[i] = "h2s"
    /\ LET n == SkipNl(toks, i + 1)
       IN  ~ (n <= Len(toks) /\ toks[n] = "box")

RECURSIVE MaxSeq(_)
MaxSeq(s) ==
  IF Len(s) = 1 THEN Head(s)
  ELSE LET m == MaxSeq(Tail(s)) IN IF Head(s) > m THEN Head(s) ELSE m

Min(a, b) == IF a < b THEN a ELSE b
Max(a, b) == IF a > b THEN a ELSE b

\* -------------------------------------------------- scoring primitives
getRiskLevel(score) ==
  IF score <= 3 THEN "LOW"
  ELSE IF score <= 6 THEN "MEDIUM"
  ELSE IF score <= 8 THEN "HIGH"
  ELSE "CRITICAL"

calculateBaseRiskScore(text) ==
  Min(6, 1 + (IF TextLength(text) > 1000 THEN 1 ELSE 0)
           + (IF Has(text.toks, {"hazard"}) THEN 1 ELSE 0)
           + (IF Has(text.toks, {"emergency"}) THEN 1 ELSE 0)
           + (IF Has(text.toks, {"control"}) THEN 1 ELSE 0))

\* the hrwActivities table: tokens matching each pattern, riskEscalation
hrwActivities ==
  << [toks |-> {"fallprot"}, riskEscalation |-> 3],
     [toks |-> {"elec"},     riskEscalation |-> 4],
     [toks |-> {},           riskEscalation |-> 4],
     [toks |-> {},           riskEscalation |-> 3],
     [toks |-> {"exc"},      riskEscalation |-> 3],
     [toks |-> {},           riskEscalation |-> 3],
     [toks |-> {},           riskEscalation |-> 4],
     [toks |-> {"scaf"},     riskEscalation |-> 2],
     [toks |-> {},           riskEscalation |-> 2] >>

RECURSIVE HrwFrom(_, _)
HrwFrom(text, k) ==
  IF k > Len(hrwActivities) THEN <<>>
  ELSE (IF Has(text.toks, hrwActivities[k].toks)
        THEN <<hrwActivities[k].riskEscalation>> ELSE <<>>)
       \o HrwFrom(text, k + 1)

\* the riskEscalation of every matched HRW activity, in table order
detectHRWFactors(text) == HrwFrom(text, 1)

\* fatalFivePatterns.some(pattern => pattern.test(originalText))
fatalFiveDetected(text) == Has(text.toks, {"fallprot", "scaf", "elec", "h2s"})

Hazard(category, severity) ==
  [category |-> category, severity |-> severity, isControlled |-> FALSE]

\* hazardPatterns of extractBasicHazards
hazardPatterns ==
  << [toks |-> {"fallprot"}, type |-> "Physical",       severity |-> "MEDIUM"],
     [toks |-> {},           type |-> "Chemical",       severity |-> "HIGH"],
     [toks |-> {},           type |-> "Physical",       severity |-> "MEDIUM"],
     [toks |-> {"fire"},     type |-> "Fire/Explosion", severity |-> "CRITICAL"],
     [toks |-> {},           type |-> "Ergonomic",      severity |-> "MEDIUM"] >>

\* checkboxViolations of extractBasicHazards: keyword tokens of each rule
checkboxViolations ==
  << [kw |-> {"h2s"},      type |-> "Chemical",        severity |-> "CRITICAL"],
     [kw |-> {"hear0"},    type |-> "PPE",             severity |-> "MEDIUM"],
     [kw |-> {},           type |-> "Environmental",   severity |-> "HIGH"],
     [kw |-> {"loose"},    type |-> "Physical",        severity |-> "HIGH"],
     [kw |-> {},           type |-> "Physical",        severity |-> "HIGH"],
     [kw |-> {},           type |-> "Physical",        severity |-> "HIGH"],
     [kw |-> {},           type |-> "Fall Protection", severity |-> "HIGH"],
     [kw |-> {"fallprot"}, type |-> "Fall Protection", severity |-> "CRITICAL"] >>

\* violation.pattern.test(text) for rule k of checkboxViolations
checkboxPatternTest(text, k) ==
  LET kw == checkboxViolations[k].kw IN
  IF k = 8
  THEN \/ ThenNoTickAfter(text.toks, kw, XMarkToks)
       \/ ThenNoTickAfter(text.toks, XMarkToks, kw)
  ELSE MarkedEitherSide(text.toks, kw, XMarkToks)

RECURSIVE BasicFrom(_, _)
BasicFrom(text, k) ==
  IF k > Len(hazardPatterns) THEN <<>>
  ELSE (IF Has(text.toks, hazardPatterns[k].toks)
        THEN <<Hazard(hazardPatterns[k].type, hazardPatterns[k].severity)>>
        ELSE <<>>)
       \o BasicFrom(text, k + 1)

RECURSIVE CheckboxFrom(_, _)
CheckboxFrom(text, k) ==
  IF k > Len(checkboxViolations) THEN <<>>
  ELSE (IF checkboxPatternTest(text, k)
        THEN <<Hazard(checkboxViolations[k].type, checkboxViolations[k].severity)>>
        ELSE <<>>)
       \o CheckboxFrom(text, k + 1)

extractBasicHazards(text) == BasicFrom(text, 1) \o CheckboxFrom(text, 1)

\* criticalViolations of applyHRWEscalation: keyword tokens and escalation
criticalViolations ==
  << [kw |-> {"h2s"},      escalation |-> 4],
     [kw |-> {"hear0"},    escalation |-> 1],
     [kw |-> {},           escalation |-> 2],
     [kw |-> {"loose"},    escalation |-> 2],
     [kw |-> {},           escalation |-> 2],
     [kw |-> {},           escalation |-> 2],
     [kw |-> {},           escalation |-> 2],
     [kw |-> {"fallprot"}, escalation |-> 3] >>

\* rule k adds its escalation: the pattern matches and the same pattern with
\* [✗xX] replaced by [✓✔] does not
criticalViolationFires(text, k) ==
  /\ MarkedEitherSide(text.toks, criticalViolations[k].kw, XMarkToks)
  /\ ~ MarkedEitherSide(text.toks, criticalViolations[k].kw, TickToks)

RECURSIVE ViolationEscalationFrom(_, _)
ViolationEscalationFrom(text, k) ==
  IF k > Len(criticalViolations) THEN 0
  ELSE (IF criticalViolationFires(text, k)
        THEN criticalViolations[k].escalation ELSE 0)
       + ViolationEscalationFrom(text, k + 1)

RECURSIVE CriticalUncontrolled(_)
CriticalUncontrolled(hazards) ==
  IF hazards = <<>> THEN 0
  ELSE (IF Head(hazards).severity = "CRITICAL" /\ ~ Head(hazards).isControlled
        THEN 1 ELSE 0)
       + CriticalUncontrolled(Tail(hazards))

\* f.riskEscalation || 2
EscalationOrDefault(e) == IF e = 0 THEN 2 ELSE e

RECURSIVE MapEscalation(_)
MapEscalation(s) ==
  IF s = <<>> THEN <<>>
  ELSE <<EscalationOrDefault(Head(s))>> \o MapEscalation(Tail(s))

RECURSIVE SumOfWeights(_)
SumOfWeights(weights) ==
  IF weights = <<>> THEN 0 ELSE Head(weights) + SumOfWeights(Tail(weights))

\* the escalation with the weights of all matched HRW activities added up
applyHRWEscalation_SumOfWeights(baseScore, hrwFactors, hazards, originalText) ==
  LET hrw == SumOfWeights(MapEscalation(hrwFactors))
      fatal == IF fatalFiveDetected(originalText) THEN 1 ELSE 0
      boxes == ViolationEscalationFrom(originalText, 1)
      crit == CriticalUncontrolled(hazards)
  IN  Min(10, baseScore + hrw + fatal + boxes + crit)

applyHRWEscalation(baseScore, hrwFactors, hazards, originalText) ==
  LET hrw == IF Len(hrwFactors) > 0 THEN MaxSeq(MapEscalation(hrwFactors)) ELSE 0
      fatal == IF fatalFiveDetected(originalText) THEN 1 ELSE 0
      boxes == ViolationEscalationFrom(originalText, 1)
      crit == CriticalUncontrolled(hazards)
  IN  Min(10, baseScore + hrw + fatal + boxes + crit)

\* ------------------------------------------------- analysis results
NoError == "none"

\* the AnalysisResult fields the orchestrator, the handlers and the tracking
\* service read; provider / error are metadata.provider / metadata.error
AnalysisResult(formType, score, level, issues, hrw, compliance, review,
               completeness, provider, error, analysisProvider) ==
  [formType |-> formType, riskScore |-> score, riskLevel |-> level,
   flaggedIssues |-> issues, hrwFactors |-> hrw,
   complianceIssues |-> compliance, requiresSupervisorReview |-> review,
   formCompleteness |-> completeness, provider |-> provider,
   error |-> error, analysisProvider |-> analysisProvider]

\* getFallbackAnalysis with the review flag derived from the score, as
\* calculateSupervisorReview does for AI results, instead of always set
getFallbackAnalysis_ReviewFromScore(text, error) ==
  LET baseScore == calculateBaseRiskScore(text)
      Scored(hrwFactors, hazards) ==
        LET Result(finalScore) ==
              AnalysisResult("UNKNOWN", finalScore, getRiskLevel(finalScore),
                             hazards, hrwFactors, <<"HIGH">>, finalScore >= 7,
                             "REQUIRES_REVIEW", "fallback", error, "fallback")
        IN  Result(applyHRWEscalation(baseScore, hrwFactors, hazards, text))
  IN  Scored(detectHRWFactors(text), extractBasicHazards(text))

getFallbackAnalysis(text, error) ==
  LET baseScore == calculateBaseRiskScore(text)
      Scored(hrwFactors, hazards) ==
        LET Result(finalScore) ==
              AnalysisResult("UNKNOWN", finalScore, getRiskLevel(finalScore),
                             hazards, hrwFactors, <<"HIGH">>, TRUE,
                             "REQUIRES_REVIEW", "fallback", error, "fallback")
        IN  Result(applyHRWEscalation(baseScore, hrwFactors, hazards, text))
  IN  Scored(detectHRWFactors(text), extractBasicHazards(text))

\* the review rule without the incomplete-form condition
calculateSupervisorReview_NoCompleteness(analysis, riskScore) ==
  \/ riskScore >= 7
  \/ \E i \in DOMAIN analysis.flaggedIssues :
       analysis.flaggedIssues[i].severity = "CRITICAL"
  \/ \E i \in DOMAIN analysis.complianceIssues :
       analysis.complianceIssues[i] \in {"HIGH", "CRITICAL"}

calculateSupervisorReview(analysis, riskScore) ==
  \/ riskScore >= 7
  \/ \E i \in DOMAIN analysis.flaggedIssues :
       analysis.flaggedIssues[i].severity = "CRITICAL"
  \/ analysis.formCompleteness = "INCOMPLETE" /\ riskScore >= 5
  \/ \E i \in DOMAIN analysis.complianceIssues :
       analysis.complianceIssues[i] \in {"HIGH", "CRITICAL"}

enhanceAnalysisResult(analysis, originalText) ==
  LET baseScore == IF analysis.hasScore /\ analysis.riskScore # 0
                   THEN analysis.riskScore
                   ELSE calculateBaseRiskScore(originalText)
      hrw == IF Len(analysis.hrwFactors) > 0
             THEN MaxSeq(MapEscalation(analysis.hrwFactors)) ELSE 0
      fatal == IF fatalFiveDetected(originalText) THEN 1 ELSE 0
      crit == CriticalUncontrolled(analysis.flaggedIssues)
      Result(finalScore) ==
        AnalysisResult(analysis.formType, finalScore, getRiskLevel(finalScore),
                       analysis.flaggedIssues, analysis.hrwFactors,
                       analysis.complianceIssues,
                       calculateSupervisorReview(analysis, finalScore),
                       IF analysis.formCompleteness = ""
                       THEN "PARTIALLY_COMPLETE" ELSE analysis.formCompleteness,
                       "", NoError, "ai")
  IN  Result(Min(10, baseScore + hrw + fatal + crit))

\* the violations parseEnhancedAIResponse detects in the original text
detectedViolations(originalText) ==
  (IF H2SMonitorUnconfirmed(originalText.toks)
   THEN <<Hazard("CHEMICAL", "CRITICAL")>> ELSE <<>>)
  \o (IF Has(originalText.toks, {"hear0"})
      THEN <<Hazard("PPE", "HIGH")>> ELSE <<>>)
  \o (IF Has(originalText.toks, {"loose"})
      THEN <<Hazard("PHYSICAL", "HIGH")>> ELSE <<>>)

\* A backend reply.  kind: "throw" (connection error, non-2xx response or a
\* body without the expected fields), "nojson" (no {...} in the content),
\* "badjson" ({...} that JSON.parse rejects), "json" (a JSON object).
\* formType "" and hasScore FALSE stand for an absent field; an absent
\* riskEscalation is 0.
Reply(kind, formType, hasScore, score, issues, hrw, completeness, compliance) ==
  [kind |-> kind, formType |-> formType, hasScore |-> hasScore,
   riskScore |-> score, flaggedIssues |-> issues, hrwFactors |-> hrw,
   formCompleteness |-> completeness, complianceIssues |-> compliance]

\* returns the result and the message logged by the catch block, if any
parseEnhancedAIResponse(reply, originalText) ==
  IF reply.kind = "nojson"
  THEN [result |-> getFallbackAnalysis(originalText, "No JSON found in AI response"),
        logged |-> "No JSON found in AI response"]
  ELSE IF reply.kind = "badjson"
  THEN [result |-> getFallbackAnalysis(originalText, "Unexpected token in JSON"),
        logged |-> "Unexpected token in JSON"]
  ELSE
    LET Escalated(detected) ==
          IF Len(detected) > 0
          THEN [reply EXCEPT
                  !.flaggedIssues = detected \o reply.flaggedIssues,
                  !.riskScore = IF reply.hasScore
                                THEN Min(10, reply.riskScore + 2 * Len(detected))
                                ELSE reply.riskScore]
          ELSE reply
        Validated(parsed) ==
          IF parsed.formType = "" \/ ~ parsed.hasScore \/ parsed.riskScore = 0
          THEN [result |-> getFallbackAnalysis(originalText,
                              "Missing required fields in AI response"),
                logged |-> "Missing required fields in AI response"]
          ELSE [result |-> enhanceAnalysisResult(parsed, originalText),
                logged |-> NoError]
    IN  Validated(Escalated(detectedViolations(originalText)))

\* result && result.formType && result.formType !== 'UNKNOWN'
Accepted(result) == result.formType # "" /\ result.formType # "UNKNOWN"

\* analyzeWithDeepSeek / analyzeWithGemini / analyzeWithOpenAI: either throws
\* `error' or returns `result'
callProvider(provider, reply, text) ==
  IF reply.kind = "throw"
  THEN [threw |-> TRUE, error |-> "API error",
        result |-> <<>>, logged |-> NoError]
  ELSE LET Checked(p) ==
             IF provider = "deepseek" /\ ~ Accepted(p.result)
             THEN [threw |-> TRUE,
                   error |-> "DeepSeek returned invalid or unknown result",
                   result |-> <<>>, logged |-> p.logged]
             ELSE [threw |-> FALSE, error |-> NoError,
                   result |-> <<p.result>>, logged |-> p.logged]
       IN  Checked(parseEnhancedAIResponse(reply, text))

\* how a reply looks to the orchestrator
ReplyClass(reply, text) ==
  IF reply.kind = "throw" THEN "throw"
  ELSE LET Class(p) ==
             IF p.logged # NoError THEN "malformed"
             ELSE IF Accepted(p.result) THEN "valid" ELSE "unknown"
       IN  Class(parseEnhancedAIResponse(reply, text))

\* the state of one analyzeSafetyForm call
NewRun ==
  [idx |-> 1, lastError |-> NoError, failures |-> <<>>, parseLog |-> <<>>,
   replyLog |-> <<>>, returned |-> <<>>, fallbackUsed |-> FALSE]

\* the loop iteration without the `return result' of an accepted result
attemptProvider_KeepTrying(r, provs, reply, txt) ==
  LET provider == provs[r.idx]
      Logged(c) ==
        [r EXCEPT
           !.idx = r.idx + 1,
           !.replyLog = Append(r.replyLog, ReplyClass(reply, txt)),
           !.parseLog = IF c.logged # NoError
                        THEN Append(r.parseLog, c.logged) ELSE r.parseLog]
      Handled(c, logs) ==
        IF c.threw
        THEN [logs EXCEPT !.lastError = c.error,
                          !.failures = Append(r.failures, provider)]
        ELSE logs
      Attempt(c) == Handled(c, Logged(c))
  IN  Attempt(callProvider(provider, reply, txt))

\* one iteration of `for (const provider of this.providers)'
attemptProvider(r, provs, reply, txt) ==
  LET provider == provs[r.idx]
      Logged(c) ==
        [r EXCEPT
           !.idx = r.idx + 1,
           !.replyLog = Append(r.replyLog, ReplyClass(reply, txt)),
           !.parseLog = IF c.logged # NoError
                        THEN Append(r.parseLog, c.logged) ELSE r.parseLog]
      Handled(c, logs) ==
        IF c.threw
        THEN [logs EXCEPT !.lastError = c.error,
                          !.failures = Append(r.failures, provider)]
        ELSE IF Accepted(c.result[1])
        THEN [logs EXCEPT !.returned = <<[c.result[1] EXCEPT !.provider = provider]>>]
        ELSE logs
      Attempt(c) == Handled(c, Logged(c))
  IN  Attempt(callProvider(provider, reply, txt))

\* the code after the loop
returnFallback(r, txt) ==
  [r EXCEPT !.returned = <<getFallbackAnalysis(txt, r.lastError)>>,
            !.fallbackUsed = TRUE]

RECURSIVE runProviders(_, _, _, _)
runProviders(r, provs, replies, txt) ==
  IF r.returned # <<>> THEN r
  ELSE IF r.idx > Len(provs) THEN returnFallback(r, txt)
  ELSE runProviders(attemptProvider(r, provs, replies[r.idx], txt),
                    provs, replies, txt)

\* analyzeSafetyForm(text) against backends answering replies[1..]
analyzeSafetyForm(txt, provs, replies) ==
  runProviders(NewRun, provs, replies, txt).returned[1]

\* ------------------------------------------------- tracking service
\* processing_status VARCHAR(50) DEFAULT 'processing'
DefaultProcessingStatus == "processing"

\* what can go wrong in one tracking-service call: pool.connect() rejects,
\* the main statement fails, the audit write cannot get a connection, the
\* audit INSERT fails
Faults == {"none", "connect", "query", "audit_connect", "audit_query"}
\* calls that write no audit event
PlainFaults == {"none", "connect", "query"}
\* storeFormHazards: pool.connect() rejects, or an INSERT fails
HazardFaults == {"none", "connect", "insert"}

NoRow == 0

Database(sessions, forms, hazards, audit) ==
  [processing_sessions |-> sessions, forms_processing |-> forms,
   form_hazards |-> hazards, forms_audit_log |-> audit]

\* severities that are numbers, as the integration script stores them
NumericSeverities == {"<number 9>", "<number 6>"}

\* severity?.toUpperCase() raises a TypeError on a number
mapSeverityThrows(severity) == severity \in NumericSeverities

mapSeverityToInteger(severity) ==
  CASE severity = "LOW" -> 1
    [] severity = "MEDIUM" -> 2
    [] severity = "HIGH" -> 3
    [] severity = "CRITICAL" -> 4
    [] OTHER -> 2

mapPriorityToInteger(priority) ==
  CASE priority = "LOW" -> 1
    [] priority = "MEDIUM" -> 2
    [] priority = "HIGH" -> 3
    [] priority = "CRITICAL" -> 4
    [] OTHER -> 2

\* hazard.actionPriority || "MEDIUM"
ActionPriorityOf(hazard) ==
  IF "actionPriority" \in DOMAIN hazard /\ hazard.actionPriority # ""
  THEN hazard.actionPriority ELSE "MEDIUM"

\* the session row exists: it was inserted and no DELETE has removed it
\* (a removed row keeps its place, ids are never reused)
SessionLive(D, sessionId) ==
  /\ sessionId \in DOMAIN D.processing_sessions
  /\ ~ D.processing_sessions[sessionId].deleted

\* session_id UUID REFERENCES processing_sessions(id)
SessionKeyHolds(D, sessionId) == sessionId = NoRow \/ SessionLive(D, sessionId)

\* logAuditEvent: the connection is taken outside the try block
logAuditEvent(D, formId, sessionId, eventType, fault) ==
  IF fault = "connect" THEN [db |-> D, threw |-> TRUE]
  ELSE IF fault = "query" \/ ~ SessionKeyHolds(D, sessionId)
  THEN [db |-> D, threw |-> FALSE]
  ELSE [db |-> [D EXCEPT !.forms_audit_log =
                  Append(@, [form_processing_id |-> formId,
                             session_id |-> sessionId,
                             event_type |-> eventType])],
        threw |-> FALSE]

\* the audit part of an operation's fault
AuditFault(fault) ==
  CASE fault = "audit_connect" -> "connect"
    [] fault = "audit_query" -> "query"
    [] OTHER -> "none"

\* session_token VARCHAR(255) UNIQUE NOT NULL
SessionTokenTaken(D, token) ==
  \E i \in DOMAIN D.processing_sessions :
    SessionLive(D, i) /\ D.processing_sessions[i].session_token = token

createProcessingSession(D, sessionToken, fault) ==
  IF fault # "none" \/ SessionTokenTaken(D, sessionToken)
  THEN [db |-> D, threw |-> TRUE, id |-> NoRow]
  ELSE [db |-> [D EXCEPT !.processing_sessions =
                  Append(@, [session_token |-> sessionToken,
                             total_forms_processed |-> 0, deleted |-> FALSE])],
        threw |-> FALSE, id |-> Len(D.processing_sessions) + 1]

updateProcessingSession(D, sessionId, totalFormsProcessed, fault) ==
  IF fault # "none" THEN [db |-> D, threw |-> TRUE]
  ELSE [db |-> IF SessionLive(D, sessionId)
               THEN [D EXCEPT !.processing_sessions[sessionId]
                                 .total_forms_processed = totalFormsProcessed]
               ELSE D,
        threw |-> FALSE]

NewFormRow(sessionId) ==
  [session_id |-> sessionId, processing_status |-> DefaultProcessingStatus,
   ocr_recorded |-> FALSE, ai_recorded |-> FALSE, risk_score |-> 0,
   risk_level |-> "", supervisor_flagged |-> FALSE, error_stage |-> "",
   form_type_detected |-> "", ai_provider |-> ""]

createFormProcessingRecord(D, sessionId, fault) ==
  IF fault \in {"connect", "query"} \/ ~ SessionKeyHolds(D, sessionId)
  THEN [db |-> D, threw |-> TRUE, id |-> NoRow]
  ELSE LET formId == Len(D.forms_processing) + 1
           inserted == [D EXCEPT !.forms_processing =
                          Append(@, NewFormRow(sessionId))]
           audit == logAuditEvent(inserted, formId, sessionId,
                                  "form_processing_started", AuditFault(fault))
       IN  [db |-> audit.db, threw |-> audit.threw,
            id |-> IF audit.threw THEN NoRow ELSE formId]

\* updateFormProcessingOCR writing its audit event under the AI stage's tag
updateFormProcessingOCR_WrongEventType(D, formId, fault) ==
  IF fault \in {"connect", "query"}
  THEN [db |-> D, threw |-> TRUE, id |-> NoRow]
  ELSE LET updated == [D EXCEPT !.forms_processing[formId].ocr_recorded = TRUE]
           audit == logAuditEvent(updated, formId, NoRow, "ai_analysis_completed",
                                  AuditFault(fault))
       IN  [db |-> audit.db, threw |-> audit.threw,
            id |-> IF audit.threw THEN NoRow ELSE formId]

updateFormProcessingOCR(D, formId, fault) ==
  IF fault \in {"connect", "query"}
  THEN [db |-> D, threw |-> TRUE, id |-> NoRow]
  ELSE LET updated == [D EXCEPT !.forms_processing[formId].ocr_recorded = TRUE]
           audit == logAuditEvent(updated, formId, NoRow, "ocr_completed",
                                  AuditFault(fault))
       IN  [db |-> audit.db, threw |-> audit.threw,
            id |-> IF audit.threw THEN NoRow ELSE formId]

\* the for loop of storeFormHazards: rows are inserted one by one until a
\* severity cannot be mapped or the INSERT numbered failAt fails
RECURSIVE InsertHazards(_, _, _, _, _)
InsertHazards(D, formId, hazards, k, failAt) ==
  IF k > Len(hazards) THEN [db |-> D, threw |-> FALSE]
  ELSE IF mapSeverityThrows(hazards[k].severity) \/ k = failAt
  THEN [db |-> D, threw |-> TRUE]
  ELSE InsertHazards(
         [D EXCEPT !.form_hazards =
            Append(@, [form_processing_id |-> formId,
                       severity_level |-> mapSeverityToInteger(hazards[k].severity),
                       action_priority |->
                         mapPriorityToInteger(ActionPriorityOf(hazards[k]))])],
         formId, hazards, k + 1, failAt)

storeFormHazards(D, formId, hazards, hazardFault, failAt) ==
  IF hazardFault = "connect" THEN [db |-> D, threw |-> TRUE]
  ELSE InsertHazards(D, formId, hazards, 1,
                     IF hazardFault = "insert" THEN failAt ELSE 0)

updateFormProcessingAI(D, formId, aiData, fault, hazardFault, failAt) ==
  IF fault \in {"connect", "query"}
  THEN [db |-> D, threw |-> TRUE, id |-> NoRow]
  ELSE LET updated ==
             [D EXCEPT !.forms_processing[formId] =
                [@ EXCEPT !.ai_recorded = TRUE,
                          !.form_type_detected = aiData.formTypeDetected,
                          !.risk_score = aiData.riskScore,
                          !.risk_level = aiData.riskLevel,
                          !.supervisor_flagged = aiData.supervisorFlagged,
                          !.ai_provider = IF aiData.aiProvider = ""
                                          THEN "deepseek"
                                          ELSE aiData.aiProvider,
                          !.processing_status = "completed"]]
           audit == logAuditEvent(updated, formId, NoRow,
                                  "ai_analysis_completed", AuditFault(fault))
       IN  IF audit.threw THEN [db |-> audit.db, threw |-> TRUE, id |-> NoRow]
           ELSE IF Len(aiData.hazardsIdentified) > 0
           THEN LET stored == storeFormHazards(audit.db, formId,
                                 aiData.hazardsIdentified, hazardFault, failAt)
                IN  [db |-> stored.db, threw |-> stored.threw,
                     id |-> IF stored.threw THEN NoRow ELSE formId]
           ELSE [db |-> audit.db, threw |-> FALSE, id |-> formId]

markFormProcessingError(D, formId, stage, fault) ==
  IF fault \in {"connect", "query"}
  THEN [db |-> D, threw |-> TRUE, id |-> NoRow]
  ELSE LET updated ==
             [D EXCEPT !.forms_processing[formId] =
                [@ EXCEPT !.processing_status = "failed",
                          !.error_stage = stage]]
           audit == logAuditEvent(updated, formId, NoRow, "processing_failed",
                                  AuditFault(fault))
       IN  [db |-> audit.db, threw |-> audit.threw,
            id |-> IF audit.threw THEN NoRow ELSE formId]

\* getSessionForms: the records joined to the session holding the token,
\* ORDER BY created_at DESC; records are created in the order of their ids
getSessionForms(D, sessionToken) ==
  LET n == Len(D.forms_processing)
      newestFirst == [i \in 1..n |-> n + 1 - i]
      Joined(f) ==
        LET s == D.forms_processing[f].session_id IN
        /\ s \in DOMAIN D.processing_sessions
        /\ SessionLive(D, s)
        /\ D.processing_sessions[s].session_token = sessionToken
  IN  SelectSeq(newestFirst, Joined)

\* what can go wrong in cleanupOldData: pool.connect() rejects, the DELETE on
\* forms_audit_log fails, the DELETE on processing_sessions fails
CleanupFaults == {"none", "connect", "audit_query", "session_query"}

\* a forms_processing or forms_audit_log row references session i
SessionReferenced(D, i) ==
  \/ \E f \in DOMAIN D.forms_processing : D.forms_processing[f].session_id = i
  \/ \E a \in DOMAIN D.forms_audit_log : D.forms_audit_log[a].session_id = i

\* cleanupOldData: the first oldAudit audit rows and the first oldSessions
\* sessions are older than the retention period.  The two DELETEs run outside
\* a transaction; the foreign keys on session_id have no ON DELETE action, so
\* the second DELETE is rejected when an old session is still referenced.
cleanupOldData(D, oldAudit, oldSessions, fault) ==
  IF fault \in {"connect", "audit_query"}
  THEN [db |-> D, threw |-> TRUE, id |-> NoRow]
  ELSE LET DeleteSessions(afterAudit) ==
             IF \/ fault = "session_query"
                \/ \E i \in 1..oldSessions :
                     SessionLive(afterAudit, i) /\ SessionReferenced(afterAudit, i)
             THEN [db |-> afterAudit, threw |-> TRUE, id |-> NoRow]
             ELSE [db |-> [afterAudit EXCEPT !.processing_sessions =
                             [i \in DOMAIN @ |->
                                IF i <= oldSessions
                                THEN [@[i] EXCEPT !.deleted = TRUE] ELSE @[i]]],
                   threw |-> FALSE, id |-> NoRow]
       IN  DeleteSessions([D EXCEPT !.forms_audit_log =
                             SubSeq(@, oldAudit + 1, Len(@))])

\* ------------------------------------------------- request handlers
\* structuredResult of processAIAnalysisResult, as the aiData handed to
\* updateFormProcessingAI
AiData(formType, score, level, hazards) ==
  [formTypeDetected |-> formType, riskScore |-> score, riskLevel |-> level,
   supervisorFlagged |-> level \in {"HIGH", "CRITICAL"},
   hazardsIdentified |-> hazards, aiProvider |-> "deepseek"]

NoAiData == AiData("", 0, "", <<>>)

\* analysis.riskScore || 5
ScoreOrDefault(score) == IF score = 0 THEN 5 ELSE score

processAIAnalysisResult(rawAnalysis, ocrText) ==
  LET score == ScoreOrDefault(rawAnalysis.riskScore)
      level == rawAnalysis.riskLevel
  IN  IF TextLength(ocrText) < 200 /\ score < 8
      THEN LET escalated == Min(10, score + 2)
           IN  AiData(rawAnalysis.formType, escalated,
                      IF escalated >= 8 THEN "HIGH" ELSE "MEDIUM",
                      rawAnalysis.flaggedIssues)
      ELSE AiData(rawAnalysis.formType, score, level, rawAnalysis.flaggedIssues)

\* response.analysis of /analyze, which the confirmation screen shows
AnalysisForConfirmation(a) ==
  [formType |-> a.formType, riskScore |-> ScoreOrDefault(a.riskScore),
   riskLevel |-> a.riskLevel, flaggedIssues |-> a.flaggedIssues,
   requiresSupervisorReview |-> a.requiresSupervisorReview]

\* FormAnalysisConfirmation.handleRiskScoreChange
handleRiskScoreChange(prev, score) ==
  [prev EXCEPT !.riskScore = score,
               !.riskLevel = IF score <= 2 THEN "LOW"
                             ELSE IF score <= 4 THEN "LOW"
                             ELSE IF score <= 6 THEN "MEDIUM"
                             ELSE IF score <= 8 THEN "HIGH"
                             ELSE "CRITICAL",
               !.requiresSupervisorReview = score >= 7]

\* the range input of the confirmation screen
SliderMin == 1
SliderMax == 10

\* positions the reviewer leaves the slider at: both ends and the score at
\* which the screen's levels and getRiskLevel differ
EditedScores == {SliderMin, 4, SliderMax}

\* the aiData of /confirm with the level derived again from the score
ConfirmAiData_RecomputedLevel(confirmedAnalysis) ==
  AiData(confirmedAnalysis.formType, confirmedAnalysis.riskScore,
         getRiskLevel(confirmedAnalysis.riskScore),
         confirmedAnalysis.flaggedIssues)

\* the aiData /confirm builds from confirmedAnalysis
ConfirmAiData(confirmedAnalysis) ==
  AiData(confirmedAnalysis.formType, confirmedAnalysis.riskScore,
         confirmedAnalysis.riskLevel, confirmedAnalysis.flaggedIssues)

\* ---------------------------------------------------- form processor
\* analysis.riskScore || 5, then the contextual adjustments, each capped
calculateEnhancedRiskScore(analysis, ocrResult, metadata) ==
  LET start == ScoreOrDefault(analysis.riskScore)
      Confidence(riskScore) ==
        IF ocrResult.confidence < 30 THEN Min(10, riskScore + 2)
        ELSE IF ocrResult.confidence < 50 THEN Min(10, riskScore + 1)
        ELSE riskScore
      Mobile(riskScore) ==
        IF metadata.captureMethod = "mobile_camera" /\ ocrResult.confidence < 80
        THEN Min(10, riskScore + 1) ELSE riskScore
      Completeness(riskScore) ==
        IF analysis.formCompleteness = "INCOMPLETE"
        THEN Min(10, riskScore + 1) ELSE riskScore
      Missing(riskScore) ==
        IF analysis.missingFields > 2 THEN Min(10, riskScore + 1) ELSE riskScore
  IN  Missing(Completeness(Mobile(Confidence(start))))

\* the analysis attached to a failure result
FailedAnalysis ==
  [riskScore |-> 5, riskLevel |-> "MEDIUM", requiresSupervisorReview |-> TRUE,
   analysisStatus |-> "FAILED"]

\* the object a processing call resolves to; riskScore 0 and analysis <<>>
\* stand for an absent field, threw for a rejected promise
ProcessingResult(success, error, riskScore, analysis) ==
  [threw |-> FALSE, success |-> success, error |-> error,
   riskScore |-> riskScore, analysis |-> analysis]

\* processFormBuffer answering a failing OCR collaborator with a bare error
processFormBuffer_BareError(ocrResult, ai, analysis, metadata) ==
  IF ocrResult.kind = "throw"
  THEN ProcessingResult(FALSE, "OCR failed", 0, <<>>)
  ELSE IF ocrResult.kind \in {"absent", "blank"}
  THEN ProcessingResult(FALSE, "No text extracted from image", 5, <<FailedAnalysis>>)
  ELSE IF ai = "throw"
  THEN ProcessingResult(FALSE, "analysis failed", 5, <<FailedAnalysis>>)
  ELSE ProcessingResult(TRUE, NoError,
                        calculateEnhancedRiskScore(analysis, ocrResult, metadata),
                        <<[riskScore |-> analysis.riskScore,
                           riskLevel |-> analysis.riskLevel,
                           requiresSupervisorReview |->
                             analysis.requiresSupervisorReview,
                           analysisStatus |-> "COMPLETED"]>>)

\* ocr: what ocrService.extractText does ("throw", or a result whose text is
\* "absent", "blank" or "text"); ai: what analyzeSafetyForm does ("throw" or
\* "ok") and the analysis it returns
processFormBuffer(ocrResult, ai, analysis, metadata) ==
  IF ocrResult.kind = "throw"
  THEN ProcessingResult(FALSE, "OCR failed", 5, <<FailedAnalysis>>)
  ELSE IF ocrResult.kind \in {"absent", "blank"}
  THEN ProcessingResult(FALSE, "No text extracted from image", 5, <<FailedAnalysis>>)
  ELSE IF ai = "throw"
  THEN ProcessingResult(FALSE, "analysis failed", 5, <<FailedAnalysis>>)
  ELSE ProcessingResult(TRUE, NoError,
                        calculateEnhancedRiskScore(analysis, ocrResult, metadata),
                        <<[riskScore |-> analysis.riskScore,
                           riskLevel |-> analysis.riskLevel,
                           requiresSupervisorReview |->
                             analysis.requiresSupervisorReview,
                           analysisStatus |-> "COMPLETED"]>>)

\* read: what fs.promises.readFile does ("throw" or "ok"); the failure
\* result of processForm itself carries no top-level riskScore
processForm(read, ocrResult, ai, analysis, options) ==
  IF read = "throw"
  THEN ProcessingResult(FALSE, "ENOENT", 0, <<FailedAnalysis>>)
  ELSE processFormBuffer(ocrResult, ai, analysis,
                         [captureMethod |->
                            IF options.captureMethod = ""
                            THEN "file_upload" ELSE options.captureMethod])

\* one element of batch.map(async (item, index) => ...): in buffer mode an
\* item that is not a { buffer, metadata } object raises inside the try
\* block; in path mode an item that is not a path makes readFile reject
processBatchItem(item, index, isBufferBased) ==
  IF isBufferBased
  THEN IF ~ item.wellFormed
       THEN [index |-> index, threw |-> FALSE, success |-> FALSE,
             error |-> "TypeError", riskScore |-> 0, analysis |-> <<>>]
       ELSE [index |-> index] @@
            processFormBuffer(item.ocr, item.ai, item.analysis,
                              [captureMethod |-> item.captureMethod])
  ELSE [index |-> index] @@
       processForm(IF item.wellFormed THEN item.read ELSE "throw",
                   item.ocr, item.ai, item.analysis,
                   [captureMethod |-> ""])

RECURSIVE MapBatch(_, _, _, _)
\* batchPromises of the window starting at i, resolved in order
MapBatch(window, i, index, isBufferBased) ==
  IF index >= Len(window) THEN <<>>
  ELSE <<processBatchItem(window[index + 1], i + index, isBufferBased)>>
       \o MapBatch(window, i, index + 1, isBufferBased)

\* Array.prototype.slice reads a negative index from the end of the array
\* and clamps every index to 0..length
SliceIndex(n, length) ==
  IF n < 0 THEN Max(length + n, 0) ELSE Min(n, length)

\* items.slice(i, i + maxConcurrent)
Slice(items, i, maxConcurrent) ==
  SubSeq(items, SliceIndex(i, Len(items)) + 1,
         SliceIndex(i + maxConcurrent, Len(items)))

\* i += maxConcurrent; every i below -items.length selects the empty
\* window and passes both tests of the loop, so such values are kept as one
NextIndex(b) == Max(b.i + b.maxConcurrent, 0 - (Len(b.items) + 1))

\* the indices given to the promises that batch.map creates for the window
WindowIndices_NextWindowToo(b) ==
  {b.i + index :
     index \in 0..(Len(Slice(b.items, b.i, 2 * b.maxConcurrent)) - 1)}

WindowIndices(b) ==
  {b.i + index :
     index \in 0..(Len(Slice(b.items, b.i, b.maxConcurrent)) - 1)}

\* a window in which a failing item rejects Promise.all and ends the batch
processBatchWindow_AbortOnFailure(b) ==
  LET entries == MapBatch(Slice(b.items, b.i, b.maxConcurrent), b.i, 0,
                          b.isBufferBased)
  IN  IF \E k \in DOMAIN entries : ~ entries[k].success
      THEN [b EXCEPT !.i = Len(b.items)]
      ELSE [b EXCEPT !.results = @ \o entries, !.i = NextIndex(b)]

\* one iteration of the for loop of processBatch
processBatchWindow(b) ==
  [b EXCEPT !.results = @ \o MapBatch(Slice(b.items, b.i, b.maxConcurrent),
                                      b.i, 0, b.isBufferBased),
            !.i = NextIndex(b)]

\* ---------------------------------------------------------- inputs
AllProviders == <<"deepseek", "gemini", "openai">>

\* this.providers after initializeProviders: each backend is configured or not
ProviderLists ==
  {SelectSeq(AllProviders, LAMBDA p : p \in S) : S \in SUBSET {"deepseek", "gemini", "openai"}}

\* replies a backend can give to the orchestrator
Replies ==
  {Reply(k, "", FALSE, 0, <<>>, <<>>, "", <<>>) : k \in {"throw", "nojson", "badjson"}}
  \cup {Reply("json", ft, TRUE, sc, <<>>, <<>>, "", <<>>) :
          ft \in {"", "UNKNOWN", "JSA"}, sc \in MinReplyScore..MaxReplyScore}
  \cup {Reply("json", ft, FALSE, 0, <<>>, <<>>, "", <<>>) : ft \in {"", "UNKNOWN", "JSA"}}
  \cup {Reply("json", "JSA", TRUE, sc, <<>>, <<>>, "INCOMPLETE", <<>>) : sc \in {4, 5}}
  \cup {Reply("json", "JSA", TRUE, 2, <<>>, <<>>, "COMPLETE", <<severity>>) :
          severity \in {"LOW", "HIGH"}}

\* longer texts: hazard, emergency and control vocabulary in more than 1000
\* characters; a hearing-protection rule marked with a cross, with a tick on
\* the next line
ScenarioTexts ==
  {[toks |-> <<"hazard", "emergency", "control">>, pad |-> 1200],
   [toks |-> <<"hear0", "cross", "nl", "tick">>, pad |-> 0]}

\* a checkbox-violation signature: the phrase of a rule and a cross
CheckboxSignatures ==
  {<<kw, "cross">> : kw \in {"h2s", "hear0", "loose", "fallprot"}}

\* the text with the signature added at its end
AddSignature(t, signature) == [t EXCEPT !.toks = @ \o signature]

\* an AnalysisResult serialized and handed back as a backend's JSON reply
ResultAsReply(result) ==
  Reply("json", result.formType, TRUE, result.riskScore, result.flaggedIssues,
        result.hrwFactors, result.formCompleteness, result.complianceIssues)

\* texts the OCR collaborator returns to the request handlers: too short,
\* short (< 200 characters) and long ones, with and without violations
RouteTexts ==
  {[toks |-> <<>>, pad |-> 0],
   [toks |-> <<"h2s", "cross">>, pad |-> 0],
   [toks |-> <<"hazard", "emergency">>, pad |-> 1200]}

\* replies the backends give while a request is handled
RouteReplies ==
  {Reply("throw", "", FALSE, 0, <<>>, <<>>, "", <<>>),
   Reply("nojson", "", FALSE, 0, <<>>, <<>>, "", <<>>)}
  \cup {Reply("json", "JSA", TRUE, sc, <<>>, <<>>, "", <<>>) : sc \in {-3, 1, 7}}

\* every text of a request paired with every result analyzeSafetyForm can
\* return for it
AnalysisRuns ==
  {[text |-> t, analysis |-> analyzeSafetyForm(t, AllProviders, r)] :
     t \in RouteTexts, r \in [1..3 -> RouteReplies]}

AnalysisOutcomes(t) == {o.analysis : o \in {p \in AnalysisRuns : p.text = t}}

\* aiData of the tracking integration script (numeric severities, an
\* 'IMMEDIATE' priority) and the same data with ordinal severities
ScriptAiData ==
  {[formTypeDetected |-> "HAZARD_ASSESSMENT", riskScore |-> 8, riskLevel |-> "HIGH",
    supervisorFlagged |-> TRUE, aiProvider |-> "deepseek",
    hazardsIdentified |->
      <<[category |-> "equipment", severity |-> "<number 9>",
         isControlled |-> FALSE, actionPriority |-> "IMMEDIATE"],
        [category |-> "workplace_conditions", severity |-> "<number 6>",
         isControlled |-> FALSE, actionPriority |-> "HIGH"]>>],
   [formTypeDetected |-> "HAZARD_ASSESSMENT", riskScore |-> 8, riskLevel |-> "HIGH",
    supervisorFlagged |-> TRUE, aiProvider |-> "deepseek",
    hazardsIdentified |->
      <<[category |-> "equipment", severity |-> "CRITICAL",
         isControlled |-> FALSE, actionPriority |-> "IMMEDIATE"],
        [category |-> "workplace_conditions", severity |-> "HIGH",
         isControlled |-> FALSE, actionPriority |-> "HIGH"]>>],
   [formTypeDetected |-> "HAZARD_ASSESSMENT", riskScore |-> 8, riskLevel |-> "HIGH",
    supervisorFlagged |-> TRUE, aiProvider |-> "deepseek", hazardsIdentified |-> <<>>]}

\* what ocrService.extractText can do: throw, return no text, a text of
\* white space, a text, or a text shorter than 10 characters after trimming
OcrResults ==
  {[kind |-> k, confidence |-> 0] : k \in {"throw", "absent", "blank"}}
  \cup {[kind |-> "text", confidence |-> c] : c \in {25, 45, 70, 90}}
  \cup {[kind |-> "short", confidence |-> 45]}

\* the fields of an analysis that the form processor reads; missingFields
\* is the length of the list
ProcessorAnalyses ==
  {[riskScore |-> sc, riskLevel |-> getRiskLevel(sc),
    requiresSupervisorReview |-> sc >= 7, formCompleteness |-> fc,
    missingFields |-> mf] :
     sc \in {0, 5, 9}, fc \in {"INCOMPLETE", "COMPLETE"}, mf \in {0, 3}}

CaptureMethods == {"mobile_camera", "file_upload"}

BatchItem(wellFormed, read, kind, ai) ==
  [wellFormed |-> wellFormed, read |-> read,
   ocr |-> [kind |-> kind, confidence |-> 25], ai |-> ai,
   analysis |-> [riskScore |-> 5, riskLevel |-> "MEDIUM",
                 requiresSupervisorReview |-> FALSE,
                 formCompleteness |-> "COMPLETE", missingFields |-> 0],
   captureMethod |-> "mobile_camera"]

\* items of a batch: one that succeeds, and one for each way of failing
BatchItems ==
  {BatchItem(TRUE, "ok", "text", "ok"), BatchItem(FALSE, "ok", "text", "ok"),
   BatchItem(TRUE, "throw", "text", "ok"), BatchItem(TRUE, "ok", "throw", "ok"),
   BatchItem(TRUE, "ok", "blank", "ok"), BatchItem(TRUE, "ok", "text", "throw")}

\* ---------------------------------------------------------- state
VARIABLES
  normalized,           \* the last parseEnhancedAIResponse calls and their results
  batch,                \* processBatch: items, options, loop position, results,
                        \* the items in flight, whether the last step of the
                        \* loop before this window was the pause
  processed,            \* the last processFormBuffer / processForm call
  formText,             \* analyzeSafetyForm: the text under analysis
  providers,            \* this.providers
  run,                  \* analyzeSafetyForm: loop position, lastError, logs, result
  processing_sessions,  \* table processing_sessions
  forms_processing,     \* table forms_processing
  form_hazards,         \* table form_hazards
  forms_audit_log,      \* table forms_audit_log
  pool,                 \* this.pool: the tracking operations under way, the
                        \* connections each holds and what each waits for
  req,                  \* the request being handled and its local variables
  response,             \* the last HTTP response sent
  pendingConfirmation,  \* the sessionId of the /analyze response awaiting confirmation
  scriptForm,           \* the integration script's formRecord.id
  lastCall              \* outcome of the last direct tracking-service call

vars == <<formText, providers, run, processing_sessions, forms_processing,
          form_hazards, forms_audit_log, req, response, pendingConfirmation,
          scriptForm, lastCall, batch, processed, normalized, pool>>

analysisVars == <<formText, providers, run, normalized>>
processorVars == <<batch, processed>>
dbVars == <<processing_sessions, forms_processing, form_hazards, forms_audit_log,
            pool>>
routeVars == <<req, response, pendingConfirmation, scriptForm, lastCall>>

CurrentDb ==
  Database(processing_sessions, forms_processing, form_hazards, forms_audit_log)

SetDb(D) ==
  /\ processing_sessions' = D.processing_sessions
  /\ forms_processing' = D.forms_processing
  /\ form_hazards' = D.form_hazards
  /\ forms_audit_log' = D.forms_audit_log
  /\ UNCHANGED pool

EmptyText == [toks |-> <<>>, pad |-> 0]

Idle ==
  [op |-> "idle", pc |-> "idle", sessionRecord |-> NoRow, formRecord |-> NoRow,
   text |-> EmptyText, aiData |-> NoAiData, ocr |-> "none",
   confirmedAnalysis |-> <<>>, sessionToken |-> NoRow,
   requiresSupervisorReview |-> FALSE, provider |-> ""]

NoResponse ==
  [op |-> "none", status |-> 0, success |-> FALSE, formId |-> NoRow,
   ocr |-> "none"]

NoCall ==
  [op |-> "none", fault |-> "none", hazardFault |-> "none", threw |-> FALSE,
   id |-> NoRow, allStored |-> TRUE, stored |-> 0, cleanThrew |-> FALSE,
   cleanId |-> NoRow]

\* a tracking operation that is not running
NoOperation == [kind |-> "none", pc |-> "idle", held |-> 0]

DbInit ==
  /\ processing_sessions = <<>>
  /\ forms_processing = <<>>
  /\ form_hazards = <<>>
  /\ forms_audit_log = <<>>
  /\ pool = [o \in 1..PoolSize |-> NoOperation]

NoBatch ==
  [pc |-> "idle", items |-> <<>>, maxConcurrent |-> 1, isBufferBased |-> FALSE,
   i |-> 0, results |-> <<>>, inFlight |-> {}, paused |-> FALSE]

NoProcessed == [op |-> "none"]

ProcessorInit ==
  /\ batch = NoBatch
  /\ processed = NoProcessed

RouteInit ==
  /\ req = Idle
  /\ response = NoResponse
  /\ pendingConfirmation = <<>>
  /\ scriptForm = NoRow
  /\ lastCall = NoCall

NotNormalized == [reply |-> <<>>]

\* a deployment with all three backends configured, no request handled yet
Init ==
  /\ formText = EmptyText
  /\ providers = AllProviders
  /\ run = NewRun
  /\ normalized = NotNormalized
  /\ DbInit
  /\ RouteInit
  /\ ProcessorInit

\* one call of analyzeSafetyForm on any text, any configuration
InitAnalysis ==
  /\ formText \in {t \in Texts : t.toks # <<>> \/ t.pad > 0} \cup ScenarioTexts
  /\ providers \in ProviderLists
  /\ run = NewRun
  /\ normalized = NotNormalized
  /\ DbInit
  /\ RouteInit
  /\ ProcessorInit

\* ------------------------------------------ analyzeSafetyForm, stepwise
AttemptProvider ==
  /\ run.returned = <<>>
  /\ run.idx <= Len(providers)
  /\ \E reply \in Replies : run' = attemptProvider(run, providers, reply, formText)
  /\ UNCHANGED <<formText, providers, normalized, dbVars, routeVars, processorVars>>

ReturnFallback ==
  /\ run.returned = <<>>
  /\ run.idx > Len(providers)
  /\ run' = returnFallback(run, formText)
  /\ UNCHANGED <<formText, providers, normalized, dbVars, routeVars, processorVars>>

NextAnalysis == AttemptProvider \/ ReturnFallback

SpecAnalysis == InitAnalysis /\ [][NextAnalysis]_vars

\* --------------------------------- the normalizer and the fallback analyzer
\* the normalizer called on a text and a reply
InitNormalize ==
  /\ formText \in {t \in Texts : t.toks # <<>> \/ t.pad > 0} \cup ScenarioTexts
  /\ providers = AllProviders
  /\ run = NewRun
  /\ normalized = NotNormalized
  /\ DbInit
  /\ RouteInit
  /\ ProcessorInit

\* parseEnhancedAIResponse and getFallbackAnalysis on the text and on the
\* text with a signature added, and parseEnhancedAIResponse on its own result
Normalize ==
  /\ normalized = NotNormalized
  /\ \E reply \in {r \in Replies : r.kind = "json"},
        signature \in CheckboxSignatures :
       LET Record(first) ==
             [reply |-> <<reply>>, signature |-> signature,
              first |-> first,
              again |-> parseEnhancedAIResponse(ResultAsReply(first),
                                                formText).result,
              added |-> parseEnhancedAIResponse(
                          reply, AddSignature(formText, signature)).result,
              fallback |-> getFallbackAnalysis(formText, NoError),
              fallbackAdded |-> getFallbackAnalysis(
                                  AddSignature(formText, signature), NoError)]
       IN  normalized' = Record(parseEnhancedAIResponse(reply, formText).result)
  /\ UNCHANGED <<formText, providers, run, dbVars, routeVars, processorVars>>

SpecNormalize == InitNormalize /\ [][Normalize]_vars

\* C14: monotonic escalation: for any text and any checkbox-violation
\* signature, the final score computed for the text with the signature added
\* is greater than or equal to the final score computed for the text, on the
\* fallback path and on the normalization path with the same backend reply.
C14_MonotonicEscalation ==
  normalized # NotNormalized =>
    /\ normalized.fallbackAdded.riskScore >= normalized.fallback.riskScore
    /\ normalized.added.riskScore >= normalized.first.riskScore

\* the hazards of a list, as a set
HazardSet(hazards) == {hazards[k] : k \in DOMAIN hazards}

\* C15: idempotent normalization: feeding an already-normalized
\* AnalysisResult back through parseEnhancedAIResponse with the same original
\* text yields the same riskScore and the same set of flagged hazards.
C15_IdempotentNormalization ==
  normalized # NotNormalized =>
    /\ normalized.again.riskScore = normalized.first.riskScore
    /\ HazardSet(normalized.again.flaggedIssues)
         = HazardSet(normalized.first.flaggedIssues)

\* the text the fallback analyzer was given with the signature added
SignedText == AddSignature(formText, normalized.signature)

\* the negative and the positive-confirmation signature of rule k both match
BothSignaturesMatch(t, k) ==
  /\ checkboxViolations[k].kw # {}
  /\ MarkedEitherSide(t.toks, checkboxViolations[k].kw, XMarkToks)
  /\ MarkedEitherSide(t.toks, checkboxViolations[k].kw, TickToks)

\* C24: a detection rule fires only if its negative signature matches and
\* its positive-confirmation signature matches nowhere in the text: for every
\* rule and every text in which both match, the result holds no hazard of
\* that rule.
C24_ConfirmedRuleAddsNoHazard ==
  normalized # NotNormalized =>
    \A k \in DOMAIN checkboxViolations :
      BothSignaturesMatch(SignedText, k) =>
        Hazard(checkboxViolations[k].type, checkboxViolations[k].severity)
          \notin HazardSet(normalized.fallbackAdded.flaggedIssues)

\* H: the largest weight among the matched HRW families, 0 if none
LargestMatchedWeight(t) ==
  LET matched == {hrwActivities[k].riskEscalation :
                    k \in {j \in DOMAIN hrwActivities :
                             Has(t.toks, hrwActivities[j].toks)}}
  IN  IF matched = {} THEN 0
      ELSE CHOOSE w \in matched : \A v \in matched : v <= w

\* the checkbox rules that fire: marked with a cross and not with a tick
FiredRules(t) ==
  {k \in DOMAIN criticalViolations :
     /\ MarkedEitherSide(t.toks, criticalViolations[k].kw, XMarkToks)
     /\ ~ MarkedEitherSide(t.toks, criticalViolations[k].kw, TickToks)}

\* W: the sum of the weights of a set of rules, each counted once
RECURSIVE WeightOfRules(_)
WeightOfRules(rules) ==
  IF rules = {} THEN 0
  ELSE LET k == CHOOSE r \in rules : TRUE
       IN  criticalViolations[k].escalation + WeightOfRules(rules \ {k})

\* min(10, baseScore + H + F + C + W) for text t and the hazards of a result
EscalationFormula(t, hazards) ==
  Min(10, calculateBaseRiskScore(t)
          + LargestMatchedWeight(t)
          + (IF fatalFiveDetected(t) THEN 1 ELSE 0)
          + Cardinality({i \in DOMAIN hazards :
                           hazards[i].severity = "CRITICAL"
                           /\ ~ hazards[i].isControlled})
          + WeightOfRules(FiredRules(t)))

\* C25: on the fallback path the final score equals
\* min(10, baseScore + H + F + C + W): H the single largest weight among the
\* matched HRW families (never the sum), F 1 if a Fatal-Five family matches,
\* C the number of CRITICAL uncontrolled hazards, W the sum of the weights of
\* the fired checkbox rules, each counted once.
C25_FallbackScoreFormula ==
  normalized # NotNormalized =>
    /\ normalized.fallback.riskScore
         = EscalationFormula(formText, normalized.fallback.flaggedIssues)
    /\ normalized.fallbackAdded.riskScore
         = EscalationFormula(SignedText, normalized.fallbackAdded.flaggedIssues)

\* two HRW families match and a checkbox rule fires, below the cap
C25_Witness ==
  /\ normalized # NotNormalized
  /\ Len(normalized.fallbackAdded.hrwFactors) = 2
  /\ FiredRules(SignedText) # {}
  /\ normalized.fallbackAdded.riskScore < 10

\* the result analyzeSafetyForm has returned
Returned == run.returned[1]

\* C1: whatever the backends reply (unreachable, malformed, or a parsable
\* reply with any form type and any numeric risk score), the result that
\* analyzeSafetyForm returns has a riskScore in [1,10] and a riskLevel equal
\* to the threshold function of that riskScore.
C1_ScoreAndLevelOfResult ==
  run.returned # <<>> =>
    /\ Returned.riskScore \in 1..10
    /\ Returned.riskLevel = getRiskLevel(Returned.riskScore)

\* every configured backend was tried and none gave a usable reply
AllBackendsFailed ==
  /\ Len(run.replyLog) = Len(providers)
  /\ \A i \in DOMAIN run.replyLog : run.replyLog[i] # "valid"

\* C2: if every configured backend fails (throws, answers non-2xx, or gives
\* an unusable reply), analyzeSafetyForm returns the fallback analyzer's
\* result: formType "UNKNOWN" and requiresSupervisorReview true, whatever
\* the text.
C2_FallbackWhenAllFail ==
  (run.returned # <<>> /\ AllBackendsFailed) =>
    /\ run.fallbackUsed
    /\ Returned.formType = "UNKNOWN"
    /\ Returned.requiresSupervisorReview = TRUE

\* three backends failed on a text whose fallback score alone would not
\* call for a review
C2_Witness ==
  /\ run.returned # <<>> /\ AllBackendsFailed
  /\ Len(providers) = 3
  /\ Returned.riskScore < 7
  /\ Returned.requiresSupervisorReview = TRUE

\* C3: backends are tried in the order deepseek, gemini, openai; when the
\* first k backends each return malformed content and backend k+1 a valid
\* payload, metadata.provider of the result names backend k+1 and exactly k
\* provider-failure events were recorded, one per earlier backend.
C3_ProviderOrderAndFailures ==
  (/\ run.returned # <<>> /\ ~ run.fallbackUsed
   /\ \A i \in 1..(Len(run.replyLog) - 1) : run.replyLog[i] = "malformed")
  => LET k == Len(run.replyLog) - 1 IN
     /\ Returned.provider = providers[k + 1]
     /\ run.failures = SubSeq(providers, 1, k)

\* C21: as soon as one backend yields an accepted result, analyzeSafetyForm
\* returns it: the accepted backend is the last one called, its result is the
\* one returned, and the fallback analyzer is not invoked in that run.
C21_ReturnsFirstAccepted ==
  \A i \in DOMAIN run.replyLog :
    run.replyLog[i] = "valid" =>
      /\ i = Len(run.replyLog)
      /\ run.idx = i + 1
      /\ run.returned # <<>>
      /\ ~ run.fallbackUsed
      /\ Returned.provider = providers[i]
      /\ ~ ENABLED AttemptProvider
      /\ ~ ENABLED ReturnFallback

\* the first of three backends was accepted: two backends were never called
C21_Witness ==
  /\ Len(providers) = 3
  /\ run.replyLog = <<"valid">>
  /\ run.returned # <<>>

\* the providers the catch block of the loop has logged as failed
FailedProviders == {run.failures[k] : k \in DOMAIN run.failures}

\* C22: a backend's result is accepted only if its form type is non-empty
\* and different from "UNKNOWN": every result whose provenance names a real
\* backend has such a form type, and every rejected backend (thrown error,
\* malformed reply, missing required field, UNKNOWN form type) has left a
\* recorded failure reason: the loop's failure event or the parser's error.
C22_AcceptedOrRecorded ==
  /\ (run.returned # <<>> /\ ~ run.fallbackUsed) => Accepted(Returned)
  /\ \A i \in DOMAIN run.replyLog :
       run.replyLog[i] # "valid" =>
         \/ providers[i] \in FailedProviders
         \/ run.replyLog[i] = "malformed" /\ Len(run.parseLog) > 0

\* C23: whenever analyzeSafetyForm returns the fallback result because every
\* backend was rejected, the provenance is the fallback path and carries the
\* message of the error that triggered the fallback, also when the backends
\* were rejected for malformed content.
C23_FallbackCarriesError ==
  (run.returned # <<>> /\ run.fallbackUsed /\ Len(run.replyLog) > 0)
  => /\ Returned.provider = "fallback"
     /\ Returned.error # NoError

\* no HRW family, no Fatal-Five family and no checkbox rule matches
NoEscalationMatches(t) ==
  /\ detectHRWFactors(t) = <<>>
  /\ ~ fatalFiveDetected(t)
  /\ \A k \in DOMAIN checkboxViolations : ~ checkboxPatternTest(t, k)
  /\ ViolationEscalationFrom(t, 1) = 0

\* C17: for a text longer than 1000 characters that contains hazard,
\* emergency and control vocabulary and matches no HRW family, no Fatal-Five
\* family and no checkbox rule, the fallback analyzer gives base score 4,
\* final score 4, level MEDIUM and no supervisor review.
C17_PlainLongTextScoresFour ==
  (/\ run.returned # <<>> /\ run.fallbackUsed
   /\ TextLength(formText) > 1000
   /\ Has(formText.toks, {"hazard"})
   /\ Has(formText.toks, {"emergency"})
   /\ Has(formText.toks, {"control"})
   /\ NoEscalationMatches(formText))
  => /\ calculateBaseRiskScore(formText) = 4
     /\ Returned.riskScore = 4
     /\ Returned.riskLevel = "MEDIUM"
     /\ ~ Returned.requiresSupervisorReview

\* C18: whenever the text contains the phrase "H2S monitor worn within
\* breathing zone" with no affirmative mark after it, the result, whether a
\* backend's normalized reply or the fallback analysis, contains a CRITICAL
\* chemical hazard for the H2S monitor with isControlled = false.
C18_H2SMonitorAlwaysFlagged ==
  (run.returned # <<>> /\ H2SMonitorUnconfirmed(formText.toks))
  => \E k \in DOMAIN Returned.flaggedIssues :
       /\ Returned.flaggedIssues[k].category \in {"CHEMICAL", "Chemical"}
       /\ Returned.flaggedIssues[k].severity = "CRITICAL"
       /\ ~ Returned.flaggedIssues[k].isControlled

\* the four conditions of the supervisor-review rule, on a result
ReviewRule(result) ==
  \/ result.riskScore >= 7
  \/ \E k \in DOMAIN result.flaggedIssues :
       result.flaggedIssues[k].severity = "CRITICAL"
  \/ result.formCompleteness = "INCOMPLETE" /\ result.riskScore >= 5
  \/ \E k \in DOMAIN result.complianceIssues :
       result.complianceIssues[k] \in {"HIGH", "CRITICAL"}

SessionTokens == 1..MaxSessions

Respond(op, status, success, R) ==
  /\ response' = [op |-> op, status |-> status, success |-> success,
                  formId |-> R.formRecord, ocr |-> R.ocr]
  /\ req' = Idle

\* 1. get or create the processing session; a request is taken while the
\* tables hold fewer than maxForms records and maxAudit events
UploadSessionWithin(maxForms, maxAudit) ==
  /\ req.op = "idle"
  /\ Len(forms_processing) < maxForms
  /\ Len(forms_audit_log) < maxAudit
  /\ \E token \in SessionTokens, fault \in PlainFaults :
       LET r == createProcessingSession(CurrentDb, token, fault) IN
       /\ SetDb(r.db)
       /\ req' = [Idle EXCEPT !.op = "upload", !.pc = "file",
                              !.sessionRecord = r.id,
                              !.sessionToken = token]
  /\ response' = NoResponse
  /\ lastCall' = NoCall
  /\ UNCHANGED <<analysisVars, processorVars, pendingConfirmation, scriptForm>>

\* /upload giving up with a 500 when createProcessingSession throws
UploadSession_AbortOnFailure ==
  /\ req.op = "idle"
  /\ Len(forms_processing) < MaxForms
  /\ Len(forms_audit_log) < MaxAudit
  /\ \E token \in SessionTokens, fault \in PlainFaults :
       LET r == createProcessingSession(CurrentDb, token, fault) IN
       /\ SetDb(r.db)
       /\ IF r.threw
          THEN Respond("upload", 500, FALSE, Idle)
          ELSE /\ req' = [Idle EXCEPT !.op = "upload", !.pc = "file",
                                      !.sessionRecord = r.id,
                                      !.sessionToken = token]
               /\ response' = NoResponse
  /\ lastCall' = NoCall
  /\ UNCHANGED <<analysisVars, processorVars, pendingConfirmation, scriptForm>>

UploadSession == UploadSessionWithin(MaxForms, MaxAudit)

\* 2. validate the file upload
UploadValidateFile ==
  /\ req.op = "upload" /\ req.pc = "file"
  /\ \E hasFile \in BOOLEAN, fault \in PlainFaults :
       IF hasFile
       THEN /\ req' = [req EXCEPT !.pc = "create"]
            /\ UNCHANGED <<dbVars, response>>
       ELSE IF req.sessionRecord # NoRow
       THEN LET a == logAuditEvent(CurrentDb, NoRow, req.sessionRecord,
                                   "upload_failed", fault) IN
            /\ SetDb(a.db)
            /\ IF a.threw
               THEN /\ req' = [req EXCEPT !.pc = "unexpected"]
                    /\ UNCHANGED response
               ELSE Respond("upload", 400, FALSE, req)
       ELSE /\ Respond("upload", 400, FALSE, req)
            /\ UNCHANGED dbVars
  /\ UNCHANGED <<analysisVars, processorVars, pendingConfirmation, scriptForm, lastCall>>

\* 3. create the form processing record
UploadCreateRecord ==
  /\ req.op = "upload" /\ req.pc = "create"
  /\ \E fault \in Faults :
       LET r == createFormProcessingRecord(CurrentDb, req.sessionRecord, fault) IN
       /\ SetDb(r.db)
       /\ req' = [req EXCEPT !.pc = "ocr", !.formRecord = r.id]
  /\ UNCHANGED <<analysisVars, processorVars, response, pendingConfirmation, scriptForm, lastCall>>

\* 4. ocrService.extractText
UploadOCR ==
  /\ req.op = "upload" /\ req.pc = "ocr"
  /\ \/ req' = [req EXCEPT !.pc = "ocr_failed", !.ocr = "threw"]
     \/ \E t \in RouteTexts :
          req' = [req EXCEPT !.pc = "record_ocr", !.text = t,
                             !.ocr = IF TrimLength(t) < 10
                                     THEN "insufficient" ELSE "ok"]
  /\ UNCHANGED <<analysisVars, processorVars, dbVars, response, pendingConfirmation, scriptForm, lastCall>>

\* 4. update the form record with the OCR results
UploadRecordOCR ==
  /\ req.op = "upload" /\ req.pc = "record_ocr"
  /\ IF req.formRecord = NoRow
     THEN /\ req' = [req EXCEPT !.pc = "validate_ocr"]
          /\ UNCHANGED dbVars
     ELSE \E fault \in Faults :
            LET r == updateFormProcessingOCR(CurrentDb, req.formRecord, fault) IN
            /\ SetDb(r.db)
            /\ req' = [req EXCEPT !.pc = IF r.threw THEN "ocr_failed"
                                         ELSE "validate_ocr"]
  /\ UNCHANGED <<analysisVars, processorVars, response, pendingConfirmation, scriptForm, lastCall>>

\* a catch block that marks the form failed and answers with `status'
MarkFailedAndRespond(op, stage, status) ==
  IF req.formRecord = NoRow
  THEN /\ Respond(op, status, FALSE, req)
       /\ UNCHANGED dbVars
  ELSE \E fault \in Faults :
         LET r == markFormProcessingError(CurrentDb, req.formRecord, stage, fault) IN
         /\ SetDb(r.db)
         /\ IF r.threw
            THEN /\ req' = [req EXCEPT !.pc = "unexpected"]
                 /\ UNCHANGED response
            ELSE Respond(op, status, FALSE, req)

\* 4. catch: OCR processing failed
UploadOCRFailed ==
  /\ req.op = "upload" /\ req.pc = "ocr_failed"
  /\ MarkFailedAndRespond("upload", "ocr", 500)
  /\ UNCHANGED <<analysisVars, processorVars, pendingConfirmation, scriptForm, lastCall>>

\* 5. validate the OCR results
UploadValidateOCR ==
  /\ req.op = "upload" /\ req.pc = "validate_ocr"
  /\ IF TrimLength(req.text) < 10
     THEN MarkFailedAndRespond("upload", "ocr_validation", 400)
     ELSE /\ req' = [req EXCEPT !.pc = "ai"]
          /\ UNCHANGED <<dbVars, response>>
  /\ UNCHANGED <<analysisVars, processorVars, pendingConfirmation, scriptForm, lastCall>>

\* 6. analyzeSafetyForm and processAIAnalysisResult
UploadAI ==
  /\ req.op = "upload" /\ req.pc = "ai"
  /\ \E a \in AnalysisOutcomes(req.text) :
       req' = [req EXCEPT !.pc = "record_ai",
                          !.aiData = processAIAnalysisResult(a, req.text),
                          !.requiresSupervisorReview = a.requiresSupervisorReview,
                          !.provider = a.provider,
                          !.text = EmptyText]
  /\ UNCHANGED <<analysisVars, processorVars, dbVars, response, pendingConfirmation, scriptForm, lastCall>>

\* 6. update the form record with the AI analysis results
UploadRecordAI ==
  /\ req.op = "upload" /\ req.pc = "record_ai"
  /\ IF req.formRecord = NoRow
     THEN /\ req' = [req EXCEPT !.pc = "stats"]
          /\ UNCHANGED dbVars
     ELSE \E fault \in Faults, hazardFault \in HazardFaults,
             failAt \in 1..(Len(req.aiData.hazardsIdentified) + 1) :
            LET r == updateFormProcessingAI(CurrentDb, req.formRecord, req.aiData,
                                            fault, hazardFault, failAt) IN
            /\ SetDb(r.db)
            /\ req' = [req EXCEPT !.pc = IF r.threw THEN "ai_failed" ELSE "stats"]
  /\ UNCHANGED <<analysisVars, processorVars, response, pendingConfirmation, scriptForm, lastCall>>

\* 6. catch: AI analysis failed
UploadAIFailed ==
  /\ req.op = "upload" /\ req.pc = "ai_failed"
  /\ MarkFailedAndRespond("upload", "ai_analysis", 500)
  /\ UNCHANGED <<analysisVars, processorVars, pendingConfirmation, scriptForm, lastCall>>

\* 7. update the session statistics, 8. send the response
UploadStats ==
  /\ req.op = "upload" /\ req.pc = "stats"
  /\ IF req.sessionRecord = NoRow
     THEN /\ Respond("upload", 200, TRUE, req)
          /\ UNCHANGED dbVars
     ELSE \E fault \in PlainFaults :
            LET r == updateProcessingSession(CurrentDb, req.sessionRecord, 1, fault) IN
            /\ SetDb(r.db)
            /\ Respond("upload", 200, TRUE, req)
  /\ UNCHANGED <<analysisVars, processorVars, pendingConfirmation, scriptForm, lastCall>>

\* the outer catch of a handler: markFormProcessingError is tried, its own
\* failure is logged, and the answer is 500
Unexpected(op, stage) ==
  /\ req.op = op /\ req.pc = "unexpected"
  /\ IF req.formRecord = NoRow
     THEN UNCHANGED dbVars
     ELSE \E fault \in Faults :
            SetDb(markFormProcessingError(CurrentDb, req.formRecord,
                                          stage, fault).db)
  /\ Respond(op, 500, FALSE, req)
  /\ UNCHANGED <<analysisVars, processorVars, pendingConfirmation, scriptForm, lastCall>>

UploadUnexpected == Unexpected("upload", "unexpected_error")

\* ----------------------------------------------------- POST /analyze
\* the /analyze handler persisting the form the way /upload does
Analyze_Persisting ==
  /\ req.op = "idle"
  /\ \E token \in SessionTokens, fault \in PlainFaults :
       LET r == createProcessingSession(CurrentDb, token, fault)
           R == [Idle EXCEPT !.op = "analyze", !.sessionRecord = r.id]
       IN
       \/ /\ SetDb(r.db)
          /\ Respond("analyze", 400, FALSE, R)
          /\ UNCHANGED pendingConfirmation
       \/ \E t \in {u \in RouteTexts : TrimLength(u) >= 10} :
            LET c == createFormProcessingRecord(r.db, r.id, "none") IN
            /\ AnalysisOutcomes(t) # {}
            /\ SetDb(c.db)
            /\ Respond("analyze", 200, TRUE,
                       [R EXCEPT !.ocr = "ok", !.formRecord = c.id])
            /\ pendingConfirmation' = <<r.id>>
  /\ lastCall' = NoCall
  /\ UNCHANGED <<analysisVars, processorVars, scriptForm>>

\* the whole handler: its only tracking call is createProcessingSession
Analyze ==
  /\ req.op = "idle"
  /\ \E token \in SessionTokens, fault \in PlainFaults :
       LET r == createProcessingSession(CurrentDb, token, fault)
           R == [Idle EXCEPT !.op = "analyze", !.sessionRecord = r.id]
       IN
       /\ SetDb(r.db)
       /\ \/ /\ Respond("analyze", 400, FALSE, R)              \* no file
             /\ UNCHANGED pendingConfirmation
          \/ /\ Respond("analyze", 500, FALSE, [R EXCEPT !.ocr = "threw"])
             /\ UNCHANGED pendingConfirmation
          \/ \E t \in RouteTexts :
               IF TrimLength(t) < 10
               THEN /\ Respond("analyze", 400, FALSE, [R EXCEPT !.ocr = "insufficient"])
                    /\ UNCHANGED pendingConfirmation
               ELSE /\ AnalysisOutcomes(t) # {}
                    /\ Respond("analyze", 200, TRUE, [R EXCEPT !.ocr = "ok"])
                    /\ pendingConfirmation' = <<r.id>>
  /\ lastCall' = NoCall
  /\ UNCHANGED <<analysisVars, processorVars, scriptForm>>

\* the analysis objects an /analyze response can carry
ShownAnalyses ==
  UNION {{AnalysisForConfirmation(a) : a \in AnalysisOutcomes(t)} :
           t \in {u \in RouteTexts : TrimLength(u) >= 10}}

\* what the confirmation screen can send back: the analysis as shown, or
\* with the risk score moved by the slider
ConfirmedAnalyses ==
  ShownAnalyses
  \cup {handleRiskScoreChange(a, score) :
          a \in ShownAnalyses, score \in EditedScores}

\* ----------------------------------------------------- POST /confirm
\* validation of the body and creation of the form record
ConfirmCreate ==
  /\ req.op = "idle"
  /\ Len(forms_processing) < MaxForms
  /\ \/ /\ Respond("confirm", 400, FALSE, Idle)       \* required data missing
        /\ UNCHANGED <<dbVars, pendingConfirmation>>
     \/ /\ pendingConfirmation # <<>>
        /\ \E confirmedAnalysis \in ConfirmedAnalyses, fault \in Faults :
             LET sessionId == pendingConfirmation[1]
                 r == createFormProcessingRecord(CurrentDb, sessionId, fault)
                 R == [Idle EXCEPT !.op = "confirm", !.pc = "record_ocr",
                                   !.sessionRecord = sessionId,
                                   !.formRecord = r.id,
                                   !.aiData = ConfirmAiData(confirmedAnalysis),
                                   !.confirmedAnalysis = <<confirmedAnalysis>>,
                                   !.ocr = "ok"]
             IN
             /\ SetDb(r.db)
             /\ IF r.threw
                THEN Respond("confirm", 500, FALSE, Idle)
                ELSE /\ req' = R
                     /\ response' = NoResponse
        /\ pendingConfirmation' = <<>>
  /\ lastCall' = NoCall
  /\ UNCHANGED <<analysisVars, processorVars, scriptForm>>

ConfirmRecordOCR ==
  /\ req.op = "confirm" /\ req.pc = "record_ocr"
  /\ \E fault \in Faults :
       LET r == updateFormProcessingOCR(CurrentDb, req.formRecord, fault) IN
       /\ SetDb(r.db)
       /\ req' = [req EXCEPT !.pc = IF r.threw THEN "unexpected" ELSE "record_ai"]
  /\ UNCHANGED <<analysisVars, processorVars, response, pendingConfirmation, scriptForm, lastCall>>

ConfirmRecordAI ==
  /\ req.op = "confirm" /\ req.pc = "record_ai"
  /\ \E fault \in Faults, hazardFault \in HazardFaults,
        failAt \in 1..(Len(req.aiData.hazardsIdentified) + 1) :
       LET r == updateFormProcessingAI(CurrentDb, req.formRecord, req.aiData,
                                       fault, hazardFault, failAt) IN
       /\ SetDb(r.db)
       /\ req' = [req EXCEPT !.pc = IF r.threw THEN "unexpected" ELSE "audit"]
  /\ UNCHANGED <<analysisVars, processorVars, response, pendingConfirmation, scriptForm, lastCall>>

\* the form_confirmed audit event and the response
ConfirmAudit ==
  /\ req.op = "confirm" /\ req.pc = "audit"
  /\ \E fault \in PlainFaults :
       LET a == logAuditEvent(CurrentDb, req.formRecord, req.sessionRecord,
                              "form_confirmed", fault) IN
       /\ SetDb(a.db)
       /\ IF a.threw
          THEN /\ req' = [req EXCEPT !.pc = "unexpected"]
               /\ UNCHANGED response
          ELSE Respond("confirm", 200, TRUE, req)
  /\ UNCHANGED <<analysisVars, processorVars, pendingConfirmation, scriptForm, lastCall>>

ConfirmUnexpected == Unexpected("confirm", "confirmation_error")

\* ------------------------- the tracking service called directly, as the
\* integration script does
CleanFault(fault) ==
  IF fault \in {"audit_connect", "audit_query"} THEN "none" ELSE fault

\* the outcome of the call, and of the same call with the audit write working
Called(op, fault, r, clean) ==
  /\ lastCall' = [NoCall EXCEPT !.op = op, !.fault = fault, !.threw = r.threw,
                                !.id = r.id, !.cleanThrew = clean.threw,
                                !.cleanId = clean.id]
  /\ response' = NoResponse

\* the same for updateFormProcessingAI, with whether one form_hazards row
\* was stored for each hazard handed over
CalledWithHazards(op, fault, hazardFault, hazards, r, clean) ==
  /\ lastCall' = [op |-> op, fault |-> fault, hazardFault |-> hazardFault,
                  threw |-> r.threw, id |-> r.id,
                  allStored |-> Len(r.db.form_hazards)
                                  = Len(form_hazards) + Len(hazards),
                  stored |-> Len(r.db.form_hazards) - Len(form_hazards),
                  cleanThrew |-> clean.threw, cleanId |-> clean.id]
  /\ response' = NoResponse

CallGuard == req.op = "idle" /\ Len(forms_audit_log) < MaxAudit

CallCreateProcessingSession ==
  /\ CallGuard
  /\ \E token \in SessionTokens, fault \in PlainFaults :
       LET r == createProcessingSession(CurrentDb, token, fault) IN
       SetDb(r.db) /\ Called("createProcessingSession", fault, r, r)
  /\ UNCHANGED <<analysisVars, processorVars, req, pendingConfirmation, scriptForm>>

CallCreateFormProcessingRecord ==
  /\ CallGuard
  /\ Len(forms_processing) < MaxForms
  /\ \E sessionId \in DOMAIN processing_sessions \cup {NoRow}, fault \in Faults :
       LET r == createFormProcessingRecord(CurrentDb, sessionId, fault) IN
       /\ SetDb(r.db)
       /\ scriptForm' = r.id
       /\ Called("createFormProcessingRecord", fault, r,
                 createFormProcessingRecord(CurrentDb, sessionId, CleanFault(fault)))
  /\ UNCHANGED <<analysisVars, processorVars, req, pendingConfirmation>>

CallUpdateFormProcessingOCR ==
  /\ CallGuard
  /\ scriptForm # NoRow
  /\ \E fault \in Faults :
       LET r == updateFormProcessingOCR(CurrentDb, scriptForm, fault) IN
       /\ SetDb(r.db)
       /\ Called("updateFormProcessingOCR", fault, r,
                 updateFormProcessingOCR(CurrentDb, scriptForm, CleanFault(fault)))
  /\ UNCHANGED <<analysisVars, processorVars, req, pendingConfirmation, scriptForm>>

CallUpdateFormProcessingAI ==
  /\ CallGuard
  /\ scriptForm # NoRow
  /\ Len(form_hazards) < MaxHazards
  /\ \E aiData \in ScriptAiData, fault \in Faults, hazardFault \in HazardFaults :
     \E failAt \in IF hazardFault = "insert"
                    THEN 1..(Len(aiData.hazardsIdentified) + 1) ELSE {1} :
       LET r == updateFormProcessingAI(CurrentDb, scriptForm, aiData, fault,
                                       hazardFault, failAt) IN
       /\ SetDb(r.db)
       /\ CalledWithHazards(
            "updateFormProcessingAI", fault, hazardFault, aiData.hazardsIdentified, r,
            updateFormProcessingAI(CurrentDb, scriptForm, aiData,
                                   CleanFault(fault), hazardFault, failAt))
  /\ UNCHANGED <<analysisVars, processorVars, req, pendingConfirmation, scriptForm>>

CallMarkFormProcessingError ==
  /\ CallGuard
  /\ scriptForm # NoRow
  /\ \E fault \in Faults :
       LET r == markFormProcessingError(CurrentDb, scriptForm, "script", fault) IN
       /\ SetDb(r.db)
       /\ Called("markFormProcessingError", fault, r,
                 markFormProcessingError(CurrentDb, scriptForm, "script",
                                         CleanFault(fault)))
  /\ UNCHANGED <<analysisVars, processorVars, req, pendingConfirmation, scriptForm>>

\* a maintenance call of cleanupOldData; an audit event is never older than
\* the session it references
CallCleanupOldData ==
  /\ req.op = "idle"
  /\ \E oldAudit \in 0..Len(forms_audit_log),
        oldSessions \in 0..Min(Len(processing_sessions), MaxDeleted),
        fault \in CleanupFaults :
       /\ \A a \in 1..oldAudit : forms_audit_log[a].session_id <= oldSessions
       /\ LET r == cleanupOldData(CurrentDb, oldAudit, oldSessions, fault) IN
          /\ SetDb(r.db)
          /\ Called("cleanupOldData", fault, r,
                    cleanupOldData(CurrentDb, oldAudit, oldSessions, "none"))
  /\ UNCHANGED <<analysisVars, processorVars, req, pendingConfirmation, scriptForm>>

Next ==
  \/ UploadSession \/ UploadValidateFile \/ UploadCreateRecord \/ UploadOCR
  \/ UploadRecordOCR \/ UploadOCRFailed \/ UploadValidateOCR \/ UploadAI
  \/ UploadRecordAI \/ UploadAIFailed \/ UploadStats \/ UploadUnexpected
  \/ Analyze
  \/ ConfirmCreate \/ ConfirmRecordOCR \/ ConfirmRecordAI \/ ConfirmAudit
  \/ ConfirmUnexpected
  \/ CallCreateProcessingSession \/ CallCreateFormProcessingRecord
  \/ CallUpdateFormProcessingOCR \/ CallUpdateFormProcessingAI
  \/ CallMarkFormProcessingError

Spec == Init /\ [][Next]_vars

\* ------------------------------ a journey: several /upload requests
MaxJourneyForms == 2
MaxJourneyAudit == 2

JourneySession == UploadSessionWithin(MaxJourneyForms, MaxJourneyAudit)

NextJourney ==
  \/ JourneySession \/ UploadValidateFile \/ UploadCreateRecord \/ UploadOCR
  \/ UploadRecordOCR \/ UploadOCRFailed \/ UploadValidateOCR \/ UploadAI
  \/ UploadRecordAI \/ UploadAIFailed \/ UploadStats \/ UploadUnexpected

SpecJourney == Init /\ [][NextJourney]_vars

\* the tracking service on its own: its operations called in any order,
\* the maintenance operation among them
NextTracking ==
  \/ CallCreateProcessingSession \/ CallCreateFormProcessingRecord
  \/ CallUpdateFormProcessingOCR \/ CallUpdateFormProcessingAI
  \/ CallMarkFormProcessingError \/ CallCleanupOldData

SpecTracking == Init /\ [][NextTracking]_vars

\* ------------------- the connection pool under concurrent operations
\* as many operations run at once as the pool has connections (the Pool of
\* the service has max 20; the argument is the same for every size)
\* operations that use their one connection and release it
SingleConnectionOps == {"createProcessingSession", "logAuditEvent"}
\* operations that call logAuditEvent, which connects again, inside the
\* try block in which they hold their own client
AuditingOps ==
  {"createFormProcessingRecord", "updateFormProcessingOCR",
   "markFormProcessingError", "updateFormProcessingAI"}
\* positions at which an operation awaits this.pool.connect()
WaitingPcs == {"connect", "audit_connect", "hazard_connect"}

RECURSIVE HeldBy(_, _)
\* the connections held by the operations 1..n
HeldBy(P, n) == IF n = 0 THEN 0 ELSE P[n].held + HeldBy(P, n - 1)

\* the idle clients of the pool
FreeConnections(P) == PoolSize - HeldBy(P, PoolSize)

PoolFrame ==
  UNCHANGED <<analysisVars, processorVars, routeVars, processing_sessions,
              forms_processing, form_hazards, forms_audit_log>>

\* a tracking operation is called: const client = await this.pool.connect()
PoolStart ==
  /\ \E o \in DOMAIN pool, kind \in SingleConnectionOps \cup AuditingOps :
       /\ pool[o].pc = "idle"
       /\ pool' = [pool EXCEPT ![o] = [kind |-> kind, pc |-> "connect",
                                       held |-> 0]]
  /\ PoolFrame

\* pool.connect() resolves with an idle client
PoolAcquire ==
  /\ \E o \in DOMAIN pool :
       /\ pool[o].pc \in WaitingPcs
       /\ FreeConnections(pool) > 0
       /\ pool' = [pool EXCEPT ![o].held = @ + 1,
                               ![o].pc = CASE pool[o].pc = "connect" -> "query"
                                           [] pool[o].pc = "audit_connect" -> "audit_query"
                                           [] OTHER -> "hazard_query"]
  /\ PoolFrame

\* pool.connect() rejects after connectionTimeoutMillis: the error leaves
\* the nested call and the operation, whose finally block releases its client
PoolTimeout ==
  /\ \E o \in DOMAIN pool :
       /\ pool[o].pc \in WaitingPcs
       /\ FreeConnections(pool) = 0
       /\ pool' = [pool EXCEPT ![o] = NoOperation]
  /\ PoolFrame

\* the operation's own query: on an error, and at the end of an operation
\* that makes no nested call, the finally block releases the client
PoolQuery ==
  /\ \E o \in DOMAIN pool, failed \in BOOLEAN :
       /\ pool[o].pc = "query"
       /\ pool' = IF failed \/ pool[o].kind \in SingleConnectionOps
                  THEN [pool EXCEPT ![o] = NoOperation]
                  ELSE [pool EXCEPT ![o].pc = "audit_connect"]
  /\ PoolFrame

\* the nested call (logAuditEvent, storeFormHazards) ends and releases its
\* client; updateFormProcessingAI goes on to storeFormHazards or not, the
\* other operations return and release theirs
PoolNestedDone ==
  /\ \E o \in DOMAIN pool, hazards \in BOOLEAN :
       /\ pool[o].pc \in {"audit_query", "hazard_query"}
       /\ pool' = IF /\ pool[o].pc = "audit_query"
                     /\ pool[o].kind = "updateFormProcessingAI"
                     /\ hazards
                  THEN [pool EXCEPT ![o].held = @ - 1,
                                    ![o].pc = "hazard_connect"]
                  ELSE [pool EXCEPT ![o] = NoOperation]
  /\ PoolFrame

NextPool ==
  PoolStart \/ PoolAcquire \/ PoolTimeout \/ PoolQuery \/ PoolNestedDone

SpecPool == Init /\ [][NextPool]_vars

\* ------------------------------------------------- the form processor
\* a direct call of processFormBuffer
ProcessFormBuffer ==
  /\ batch.pc = "idle"
  /\ \E ocrResult \in OcrResults, ai \in {"ok", "throw"},
        analysis \in ProcessorAnalyses, captureMethod \in CaptureMethods :
       processed' =
         [op |-> "processFormBuffer", read |-> "ok", ocr |-> ocrResult,
          ai |-> ai, analysis |-> analysis, captureMethod |-> captureMethod,
          result |-> processFormBuffer(ocrResult, ai, analysis,
                                       [captureMethod |-> captureMethod])]
  /\ UNCHANGED <<analysisVars, dbVars, routeVars, batch>>

\* a direct call of processForm; options may name the capture method
ProcessForm ==
  /\ batch.pc = "idle"
  /\ \E read \in {"ok", "throw"}, ocrResult \in OcrResults, ai \in {"ok", "throw"},
        analysis \in ProcessorAnalyses, captureMethod \in CaptureMethods \cup {""} :
       processed' =
         [op |-> "processForm", read |-> read, ocr |-> ocrResult,
          ai |-> ai, analysis |-> analysis,
          captureMethod |-> IF captureMethod = "" THEN "file_upload"
                            ELSE captureMethod,
          result |-> processForm(read, ocrResult, ai, analysis,
                                 [captureMethod |-> captureMethod])]
  /\ UNCHANGED <<analysisVars, dbVars, routeVars, batch>>

\* processBatch is called: results = [], i = 0
ProcessBatchStart ==
  /\ batch.pc = "idle"
  /\ \E items \in SeqsUpTo(BatchItems, MaxItems),
        maxConcurrent \in MinWindow..MaxWindow, isBufferBased \in BOOLEAN :
       batch' = [NoBatch EXCEPT !.pc = "loop", !.items = items,
                                !.maxConcurrent = maxConcurrent,
                                !.isBufferBased = isBufferBased]
  /\ processed' = NoProcessed
  /\ UNCHANGED <<analysisVars, dbVars, routeVars>>

\* a window opens: batch.map starts every item of the slice
ProcessBatchWindowStart ==
  /\ batch.pc = "loop"
  /\ batch.i < Len(batch.items)
  /\ batch' = [batch EXCEPT !.pc = "await", !.inFlight = WindowIndices(batch)]
  /\ UNCHANGED <<analysisVars, dbVars, routeVars, processed>>

\* the promise of one item of the window settles
ProcessBatchItemDone ==
  /\ batch.pc = "await"
  /\ \E index \in batch.inFlight :
       batch' = [batch EXCEPT !.inFlight = @ \ {index}]
  /\ UNCHANGED <<analysisVars, dbVars, routeVars, processed>>

\* Promise.all resolves, results.push; the pause is entered when
\* i + maxConcurrent < items.length
ProcessBatchWindow ==
  /\ batch.pc = "await"
  /\ batch.inFlight = {}
  /\ LET b == processBatchWindow(batch) IN
       batch' = [b EXCEPT !.pc = IF b.i < Len(b.items) THEN "pause" ELSE "loop",
                          !.paused = FALSE]
  /\ UNCHANGED <<analysisVars, dbVars, routeVars, processed>>

\* the 500 ms timer fires; i += maxConcurrent has been folded into the window
ProcessBatchPause ==
  /\ batch.pc = "pause"
  /\ batch' = [batch EXCEPT !.pc = "loop", !.paused = TRUE]
  /\ UNCHANGED <<analysisVars, dbVars, routeVars, processed>>

\* return results
ProcessBatchReturn ==
  /\ batch.pc = "loop"
  /\ batch.i >= Len(batch.items)
  /\ batch' = [batch EXCEPT !.pc = "returned"]
  /\ UNCHANGED <<analysisVars, dbVars, routeVars, processed>>

NextProcessor ==
  \/ ProcessFormBuffer \/ ProcessForm
  \/ ProcessBatchStart \/ ProcessBatchWindowStart \/ ProcessBatchItemDone
  \/ ProcessBatchWindow \/ ProcessBatchPause \/ ProcessBatchReturn

SpecProcessor == Init /\ [][NextProcessor]_vars

\* a call of processBatch is run by the event loop: a started item settles
\* (each single-form pipeline terminates), a timer fires, the loop goes on
BatchFairness ==
  /\ WF_vars(ProcessBatchWindowStart) /\ WF_vars(ProcessBatchItemDone)
  /\ WF_vars(ProcessBatchWindow) /\ WF_vars(ProcessBatchPause)
  /\ WF_vars(ProcessBatchReturn)

SpecProcessorFair == SpecProcessor /\ BatchFairness

C12_BatchIsolatesFailures ==
  batch.pc = "returned" =>
    /\ Len(batch.results) = Len(batch.items)
    /\ \A k \in DOMAIN batch.items :
         /\ batch.results[k].index = k - 1
         /\ batch.results[k] =
              processBatchItem(batch.items[k], k - 1, batch.isBufferBased)

\* a batch whose first item failed has returned, with a later item processed
\* successfully in the same window
C12_Witness ==
  /\ batch.pc = "returned"
  /\ Len(batch.items) = 2 /\ batch.maxConcurrent = 2
  /\ Len(batch.results) = 2
  /\ ~ batch.results[1].success
  /\ batch.results[2].success

\* C16: for OCR confidence 25, capture method mobile_camera, analysis score
\* 5, a form that is not INCOMPLETE and at most 2 missing fields, the
\* contextual re-scoring gives 7: the mobile-capture +1 is not applied once
\* the confidence-below-30 branch (+2) has fired.
C16_MobileRuleNotDoubleApplied ==
  (/\ processed.op = "processFormBuffer"
   /\ processed.result.success
   /\ processed.ocr.confidence = 25
   /\ processed.captureMethod = "mobile_camera"
   /\ processed.analysis.riskScore = 5
   /\ processed.analysis.formCompleteness # "INCOMPLETE"
   /\ processed.analysis.missingFields <= 2)
  => processed.result.riskScore = 7

\* ---------------------------------------------------------- claims
Status(f) == forms_processing[f].processing_status

\* C4: `completed' is terminal: once a FormRecord's processing_status is
\* 'completed', no later operation of the tracking service or of the
\* upload / confirm handlers changes it to 'failed' or 'processing'.
C4_CompletedIsTerminal ==
  [][\A f \in DOMAIN forms_processing :
       Status(f) = "completed" =>
         forms_processing'[f].processing_status = "completed"]_vars

\* C5: `failed' is terminal: once a FormRecord's processing_status is
\* 'failed', no later updateFormProcessingOCR or updateFormProcessingAI on
\* that record moves it to 'processing' or 'completed', for any sequence of
\* tracking-service operations on the record.
C5_FailedIsTerminal ==
  [][\A f \in DOMAIN forms_processing :
       Status(f) = "failed" =>
         forms_processing'[f].processing_status = "failed"]_vars

\* C6: the analyze path never creates a FormRecord, however often it is
\* requested, and each successful /confirm request creates exactly one:
\* the record is created when the handler starts its tracking writes, no
\* further one is created until it answers, and it answers with success
\* only after those writes.
C6_ConfirmDefersPersistence ==
  [][/\ response'.op = "analyze" => forms_processing' = forms_processing
     /\ (req.op # "confirm" /\ req'.op = "confirm") =>
          Len(forms_processing') = Len(forms_processing) + 1
     /\ req.op = "confirm" => Len(forms_processing') = Len(forms_processing)
     /\ (response'.op = "confirm" /\ response'.success /\ response' # response) =>
          /\ req.op = "confirm"
          /\ response'.formId = Len(forms_processing')]_vars

\* a /confirm request has answered with success and there is one record
C6_Witness ==
  /\ response.op = "confirm" /\ response.success
  /\ Len(forms_processing) = 1
  /\ forms_processing[1].ai_recorded

\* C7: every FormRecord whose AI fields have been written has risk_score in
\* [1,10], whether written by the upload path after its escalation or by the
\* confirm path from the confirmed, possibly corrected, riskScore.
C7_PersistedScoreInRange ==
  \A f \in DOMAIN forms_processing :
    forms_processing[f].ai_recorded => forms_processing[f].risk_score \in 1..10

\* C8: in every FormRecord whose AI fields are set, risk_level equals the
\* threshold function of risk_score (<=3 LOW, <=6 MEDIUM, <=8 HIGH, otherwise
\* CRITICAL), for the upload path after its short-text escalation and for
\* the confirm path after the reviewer changed the score.
C8_PersistedLevelMatchesScore ==
  \A f \in DOMAIN forms_processing :
    forms_processing[f].ai_recorded =>
      forms_processing[f].risk_level = getRiskLevel(forms_processing[f].risk_score)

\* C9: a failure while writing the audit event, including a failure to get a
\* database connection for it, never makes createFormProcessingRecord,
\* updateFormProcessingOCR, updateFormProcessingAI or markFormProcessingError
\* fail: each returns its row exactly as if the audit write had succeeded.
C9_AuditFailureNeverPropagates ==
  lastCall.fault \in {"audit_connect", "audit_query"} =>
    /\ lastCall.threw = lastCall.cleanThrew
    /\ lastCall.id = lastCall.cleanId

\* C13: mapSeverityToInteger and mapPriorityToInteger are total: a label
\* other than LOW, MEDIUM, HIGH, CRITICAL, an absent value or a non-text
\* value (the numeric severities and the 'IMMEDIATE' priority of the
\* integration script) yields 2 without raising an error, so that an
\* updateFormProcessingAI call with no database failure does not fail and
\* stores one form_hazards row for each hazard handed over.
C13_SeverityMappingTotal ==
  (/\ lastCall.op = "updateFormProcessingAI"
   /\ lastCall.fault = "none"
   /\ lastCall.hazardFault = "none")
  => /\ ~ lastCall.threw
     /\ lastCall.allStored
     /\ \A h \in DOMAIN form_hazards :
          /\ form_hazards[h].severity_level \in 1..4
          /\ form_hazards[h].action_priority \in 1..4

\* C20: the audit trail and the sessions are never shrunk: no operation of
\* the tracking service deletes or rewrites an audit event or deletes a
\* session; in every step the audit log keeps its events and every session
\* that existed still exists.
C20_AuditAndSessionsOnlyGrow ==
  [][/\ Len(forms_audit_log') >= Len(forms_audit_log)
     /\ SubSeq(forms_audit_log', 1, Len(forms_audit_log)) = forms_audit_log
     /\ \A i \in DOMAIN processing_sessions :
          /\ i \in DOMAIN processing_sessions'
          /\ ~ processing_sessions[i].deleted => ~ processing_sessions'[i].deleted
    ]_vars

\* C26: hazard rows match the AI-stage update: a successful
\* updateFormProcessingAI leaves exactly one hazard row per entry of its
\* payload, a failed one leaves none, and in every reachable state the hazard
\* rows of a form record exist only if that record's AI fields were recorded
\* and its status is 'completed'.
C26_HazardRowsMatchAIStage ==
  /\ lastCall.op = "updateFormProcessingAI" =>
       IF lastCall.threw THEN lastCall.stored = 0 ELSE lastCall.allStored
  /\ \A h \in DOMAIN form_hazards :
       LET f == form_hazards[h].form_processing_id IN
       /\ forms_processing[f].ai_recorded
       /\ forms_processing[f].processing_status = "completed"

\* the audit events of form record f, as positions in the log
EventsOf(f) ==
  {a \in DOMAIN forms_audit_log : forms_audit_log[a].form_processing_id = f}

PipelineEvents ==
  {"form_processing_started", "ocr_completed", "ai_analysis_completed"}

\* the form record of the /upload request in flight or just answered; the
\* events of a record are written while it is this record
UploadForms ==
  {f \in DOMAIN forms_processing :
     \/ req.op = "upload" /\ f = req.formRecord
     \/ response.op = "upload" /\ f = response.formId}

ConfirmSucceeds ==
  /\ req.op = "confirm"
  /\ response' # response
  /\ response'.op = "confirm" /\ response'.success

\* positions of the events of type `eventType' of record f after the step
EventsAfter(f, eventType) ==
  {a \in DOMAIN forms_audit_log' :
     /\ forms_audit_log'[a].form_processing_id = f
     /\ forms_audit_log'[a].event_type = eventType}

\* the record of the request holds the confirmed values and is completed
ConfirmedValuesPersisted ==
  LET f == req.formRecord
      confirmed == req.confirmedAnalysis[1]
  IN  /\ f \in DOMAIN forms_processing'
      /\ response'.formId = f
      /\ forms_processing'[f].ocr_recorded
      /\ forms_processing'[f].ai_recorded
      /\ forms_processing'[f].form_type_detected = confirmed.formType
      /\ forms_processing'[f].risk_score = confirmed.riskScore
      /\ forms_processing'[f].risk_level = confirmed.riskLevel
      /\ forms_processing'[f].processing_status = "completed"

\* the events of the record that are in the log are in the order of the
\* handler's calls
ConfirmEventsInOrder ==
  LET f == req.formRecord IN
  \A a \in EventsAfter(f, "form_processing_started"),
     b \in EventsAfter(f, "ocr_completed"),
     c \in EventsAfter(f, "ai_analysis_completed"),
     d \in EventsAfter(f, "form_confirmed") :
    a < b /\ b < c /\ c < d

ConfirmCreationFails ==
  /\ req.op = "idle" /\ req'.op = "idle"
  /\ pendingConfirmation # <<>> /\ pendingConfirmation' = <<>>
  /\ response'.op = "confirm" /\ response'.status = 500

\* a /confirm request that fails after its form record was created: the
\* outer catch answers 500
ConfirmLaterWriteFails ==
  /\ req.op = "confirm" /\ req'.op = "idle"
  /\ response'.op = "confirm" /\ response'.status = 500

\* a /confirm request answering success
ConfirmAnswersSuccess ==
  /\ req.op = "confirm" /\ req'.op = "idle"
  /\ response'.op = "confirm" /\ response'.success

\* C29: a persistence failure during /confirm is surfaced as a failure: when
\* the creation of the form record fails no record exists and the response
\* is an error; when a later write fails the record already created is marked
\* 'failed' with stage 'confirmation_error' and the error response carries
\* its form id; /confirm never answers success while the record is not
\* 'completed'
C29_ConfirmFailureSurfaced ==
  [][/\ ConfirmCreationFails =>
          /\ ~ response'.success
          /\ forms_processing' = forms_processing
     /\ ConfirmLaterWriteFails =>
          /\ ~ response'.success
          /\ response'.formId = req.formRecord
          /\ forms_processing'[req.formRecord].processing_status = "failed"
          /\ forms_processing'[req.formRecord].error_stage = "confirmation_error"
     /\ ConfirmAnswersSuccess =>
          forms_processing'[req.formRecord].processing_status = "completed"]_vars

\* the status /upload answers with at each position of the handler
ExpectedUploadStatus(pc) ==
  CASE pc = "file" -> 400
    [] pc = "validate_ocr" -> 400
    [] pc = "stats" -> 200
    [] OTHER -> 500

\* an /upload request running after createProcessingSession threw
SessionMissing == req.op = "upload" /\ req.sessionRecord = NoRow

\* the audit rows written by the step
NewAuditRows ==
  {a \in DOMAIN forms_audit_log' : a > Len(forms_audit_log)}

\* C30: session creation is best-effort: /upload and /analyze never answer
\* at the session step and go on when createProcessingSession throws, the
\* form record of /upload is then created with no owning session, no
\* session-scoped tracking call (upload_failed event, session statistics) is
\* made without a session id, and the response depends on the position, the
\* form record and the OCR outcome only, not on the session
C30_SessionCreationBestEffort ==
  [][/\ (req.op = "idle" /\ response' # response) => response'.op # "upload"
     /\ (req.op = "idle" /\ req'.op = "upload") => req'.pc = "file"
     /\ (req.op = "idle" /\ response' # response /\ response'.op = "analyze") =>
          /\ response'.formId = NoRow
          /\ response'.success <=> response'.status = 200
          /\ response'.status = 200 <=> response'.ocr = "ok"
          /\ response'.status = 500 <=> response'.ocr = "threw"
          /\ response'.success => pendingConfirmation' # <<>>
     /\ SessionMissing =>
          /\ processing_sessions' = processing_sessions
          /\ \A a \in NewAuditRows :
               forms_audit_log'[a].form_processing_id # NoRow
          /\ Len(forms_processing') > Len(forms_processing) =>
               forms_processing'[Len(forms_processing')].session_id = NoRow
     /\ (req.op = "upload" /\ req'.op = "idle") =>
          response' = [op |-> "upload",
                       status |-> ExpectedUploadStatus(req.pc),
                       success |-> (req.pc = "stats"),
                       formId |-> req.formRecord, ocr |-> req.ocr]]_vars

\* no session was ever stored, yet an /upload went through to a completed
\* form record without owner and an /analyze answered success
C30_Witness ==
  /\ processing_sessions = <<>>
  /\ response.op = "analyze" /\ response.success
  /\ pendingConfirmation = <<NoRow>>
  /\ scriptForm = NoRow
  /\ \E f \in DOMAIN forms_processing :
       /\ forms_processing[f].session_id = NoRow
       /\ forms_processing[f].processing_status = "completed"

\* C31: every /upload request that creates a form record under a session
\* token whose session exists puts the record at the head of what
\* getSessionForms returns for the token and keeps the records returned
\* before: after k such requests all k records are returned, newest first,
\* the later requests having reused the session of the first
C31_SessionFormsNewestFirst ==
  [][(/\ req.op = "upload"
      /\ Len(forms_processing') = Len(forms_processing) + 1
      /\ SessionTokenTaken(CurrentDb', req.sessionToken))
       => getSessionForms(CurrentDb', req.sessionToken)
            = <<Len(forms_processing')>>
                \o getSessionForms(CurrentDb, req.sessionToken)]_vars

\* the OCR collaborator returned a text that is empty or shorter than the
\* minimum length after trimming
InsufficientOcrText == processed.ocr.kind \in {"absent", "blank", "short"}

\* C32: processFormBuffer rejects insufficient OCR text before analysis with
\* the threshold of the upload and analyze paths: when the text is empty or
\* shorter than 10 characters after trimming, the analysis step is not run
\* and the form is reported as failed.
C32_InsufficientTextRejected ==
  (processed.op # "none" /\ processed.read = "ok" /\ InsufficientOcrText)
    => /\ ~ processed.result.success
       /\ processed.result.analysis[1].analysisStatus # "COMPLETED"

\* C33: in processBatch with window size w >= 1 at most w items are in
\* flight, the items in flight belong to the window at i and every item
\* before it has its entry (no item of the next window starts before the
\* window has finished), and a pause is taken between two consecutive
\* windows but not after the last one.
C33_WindowsBoundedAndPaced ==
  (batch.pc # "idle" /\ batch.maxConcurrent >= 1) =>
    /\ Cardinality(batch.inFlight) <= batch.maxConcurrent
    /\ batch.inFlight \subseteq batch.i..(batch.i + batch.maxConcurrent - 1)
    /\ batch.inFlight # {} => batch.pc = "await"
    /\ batch.pc = "await" => Len(batch.results) = batch.i
    /\ (batch.pc = "await" /\ batch.i > 0) => batch.paused
    /\ batch.pc = "pause" =>
         /\ batch.inFlight = {}
         /\ batch.i < Len(batch.items)
    /\ batch.pc = "returned" =>
         /\ batch.inFlight = {}
         /\ ~ batch.paused

\* the second window is in flight after the first has finished and the
\* pause has been taken
C33_Witness ==
  /\ batch.pc = "await" /\ batch.maxConcurrent = 1
  /\ batch.i = 1 /\ batch.inFlight = {1}
  /\ batch.paused
  /\ Len(batch.results) = 1

\* C39: processBatch terminates for every finite list of items and every
\* value of maxConcurrent, 0 and negative values included: a call that has
\* started eventually returns.
C39_BatchTerminates == (batch.pc = "loop") ~> (batch.pc = "returned")

\* the statuses in which a form record rests
TerminalStatuses == {"completed", "failed"}

\* C34: every form record created by an /upload request is 'completed' or
\* 'failed' once that request has sent its response, also when a tracking
\* write fails: between requests no record is in 'processing'.  (Stated for
\* runs of /upload requests, where every record comes from a request.)
C34_NoRecordLeftProcessing ==
  req.op = "idle" =>
    \A f \in DOMAIN forms_processing :
      forms_processing[f].processing_status \in TerminalStatuses

\* every connection of the pool is held by an operation that waits for
\* another connection for its audit-event or hazard write
PoolExhaustedByWaiters ==
  /\ FreeConnections(pool) = 0
  /\ \A o \in DOMAIN pool :
       pool[o].held > 0 => pool[o].pc \in {"audit_connect", "hazard_connect"}

\* C35: connection use is safe under concurrency: an operation that is not
\* running holds no connection (every connection acquired is released on
\* the success and the error paths), and the pool is never exhausted by
\* operations that each wait for a further connection.
C35_PoolSafeUnderConcurrency ==
  /\ \A o \in DOMAIN pool : pool[o].pc = "idle" => pool[o].held = 0
  /\ FreeConnections(pool) >= 0
  /\ ~ PoolExhaustedByWaiters

\* the request stores its analysis on its form record in this step
AnalysisPersisted ==
  /\ req.op \in {"upload", "confirm"} /\ req.pc = "record_ai"
  /\ req.formRecord \in DOMAIN forms_processing
  /\ ~ forms_processing[req.formRecord].ai_recorded
  /\ forms_processing'[req.formRecord].ai_recorded

\* requiresSupervisorReview of the analysis the request persists
PersistedReviewFlag ==
  IF req.op = "upload" THEN req.requiresSupervisorReview
  ELSE req.confirmedAnalysis[1].requiresSupervisorReview

\* C36: the persisted supervisor flag never under-reports the analysis: when
\* /upload or /confirm persists an analysis whose requiresSupervisorReview
\* is true (every fallback analysis, for one), the record's
\* supervisor_flagged is true.
C36_SupervisorFlagNotUnderReported ==
  [][(AnalysisPersisted /\ PersistedReviewFlag)
       => forms_processing'[req.formRecord].supervisor_flagged]_vars

\* C37: the provider stored on a form record is the provenance of its
\* analysis: when /upload persists an analysis, ai_provider is the backend
\* named by the analysis' metadata.provider, the fallback marker included.
C37_StoredProviderIsProvenance ==
  [][(AnalysisPersisted /\ req.op = "upload")
       => forms_processing'[req.formRecord].ai_provider = req.provider]_vars

\* C38: in every successful result of processFormBuffer the reported level
\* agrees with the reported final score: analysis.riskLevel is the threshold
\* function of the top-level riskScore (the score after the contextual
\* re-scoring), and analysis.requiresSupervisorReview is true whenever that
\* score is 7 or more.
C38_LevelMatchesFinalScore ==
  (processed.op = "processFormBuffer" /\ processed.result.success) =>
    /\ processed.result.analysis[1].riskLevel
         = getRiskLevel(processed.result.riskScore)
    /\ processed.result.riskScore >= 7 =>
         processed.result.analysis[1].requiresSupervisorReview

\* C10: in the upload path, when the OCR collaborator and the analysis
\* succeed, a persistence failure in any tracking write (session, FormRecord
\* creation, OCR update, AI update, session statistics) does not change the
\* outcome: the request answers with the successful analysis.
C10_TrackingLossNeverBlocks ==
  (response.op = "upload" /\ response.ocr = "ok") =>
    (response.success /\ response.status = 200)

====
